---- MODULE Spec2Model ----
(***************************************************************************)
(* The task orchestration engine of src/metric_caller.py:                  *)
(* run_concurrently_from_file (the dispatcher), process_worker (one        *)
(* process per dispatched task) and logger_process (the log collector);    *)
(* with it parse_project_file of src/url_class.py, which reads the links   *)
(* the runs are made for, the loop of main of src/run.py, which makes one  *)
(* run per group of links, and build_model_output of src/json_output.py,   *)
(* which reports what a run returned.                                      *)
(*                                                                         *)
(* Numbers.  Scores are integers in thousandths (0.6 is 600), weights are  *)
(* integers in tenths (3.0 is 30), so a product score * weight, and hence  *)
(* net_score, is in units of 1/10000.  The operations on floats of the     *)
(* aggregation round their result to a significand of SignificandBits      *)
(* bits (FloatMul, FloatAdd).                                              *)
(*                                                                         *)
(* Python values of dynamic type (the first component a scorer returns)    *)
(* are records [shape, val]: a "scalar" carries a number, a "composite"    *)
(* carries a mapping of profile name to number (a dict).                   *)
(***************************************************************************)
EXTENDS Integers, Sequences, FiniteSets, TLC

VARIABLES
    taskfile,           \* the lines of the task file (input, never written)
    available_functions,\* the registry: function name -> function (input)
    all_args_dict,      \* the caller's parameter dictionary
    d_pc,               \* the dispatcher's position in run_concurrently_from_file
    lineno,             \* 1-based number of the next line to parse
    processes,          \* the list `processes`: one record per dispatched task
    idx,                \* loop index of the start / collect / join loops
    w_pc,               \* w_pc[w]: position of worker process w
    w_logged,           \* w_logged[w]: messages the scorer of w has logged so far
    results_queue,      \* multiprocessing.Queue of result tuples
    log_queue,          \* manager.Queue of log messages
    logger_pc,          \* position of the logger process
    log_file,           \* the lines written to the log file
    func_call_counts,   \* defaultdict(int)
    scores_dictionary,
    times_dictionary,
    net_score,
    returned,           \* the pair run_concurrently_from_file returns
    submitted,          \* history: every message ever put on log_queue, in order
    put_count,          \* history: put_count[w] = results worker w has put
    collected,          \* history: the results taken from results_queue, each
                        \* with the key it was stored under
    project_lines,      \* parse_project_file: the lines of the file (input)
    pp_pc,              \* parse_project_file: position
    pp_read,            \* parse_project_file: lines of the file read so far
    pp_raised,          \* parse_project_file: the exception that left it
    project_groups,     \* parse_project_file: the list project_groups
    ns, rp, rev,        \* parse_project_file: locals bound by the model link
    data_repo,          \* parse_project_file: local bound by the dataset link
    run_no              \* main of run.py: the number of the run it is making

\* the variables of parse_project_file
url_vars == <<project_lines, pp_pc, pp_read, pp_raised, project_groups, ns, rp, rev, data_repo>>

\* the variables of run_concurrently_from_file and the processes it starts
run_vars == <<taskfile, available_functions, all_args_dict, d_pc, lineno, processes, idx, w_pc,
              w_logged, results_queue, log_queue, logger_pc, log_file, func_call_counts,
              scores_dictionary, times_dictionary, net_score, returned, submitted,
              put_count, collected>>

vars == <<url_vars, run_no, taskfile, available_functions, all_args_dict, d_pc, lineno, processes, idx, w_pc, w_logged,
          results_queue, log_queue, logger_pc, log_file, func_call_counts,
          scores_dictionary, times_dictionary, net_score, returned, submitted,
          put_count, collected>>

\* Longest task file explored.
MaxLines == 2

EmptyMap == [k \in {} |-> 0]

\* A log message: the tag of its kind, a line number or worker number, its
\* text and, for the missing-keys warning, the list of keys.
Msg(tag, n, text, keys) == <<tag, n, text, keys>>

\* The termination sentinel of the log queue (Python's None).
None == Msg("None", 0, "", <<>>)

-----------------------------------------------------------------------------
(* Scorers.  A scorer is what process_worker calls at line 41: it may put  *)
(* messages on the log queue and then returns (score, time_taken), raises  *)
(* an Exception, or ends the process (exit(1), as verify_token does).      *)

Scalar(n) == [shape |-> "scalar", val |-> n]
Composite(m) == [shape |-> "composite", val |-> m]

\* src/functions/failing_task.py
failing_task(args) ==
    [msgs |-> IF args[2] > 0
                THEN << "Starting a task that is designed to fail..." >>
                ELSE <<>>,
     kind |-> "raise", score |-> Scalar(0), time |-> "none"]

\* src/metrics/calculate_size_score.py; the model size comes in tenths of a GB
calculate_size_score(args) ==
    LET size_gb10 == args[1]
        verbosity == args[2]
        scores == ("raspberry_pi" :> (IF size_gb10 <= 1 THEN 1000
                                       ELSE IF size_gb10 <= 5 THEN 500 ELSE 0))
               @@ ("jetson_nano" :> (IF size_gb10 <= 5 THEN 1000
                                       ELSE IF size_gb10 <= 20 THEN 500 ELSE 0))
               @@ ("desktop_pc" :> (IF size_gb10 <= 50 THEN 1000
                                       ELSE IF size_gb10 <= 100 THEN 500 ELSE 0))
               @@ ("aws_server" :> 1000)
    IN  [msgs |-> IF verbosity >= 1
                    THEN << "[INFO] Starting size score calculation",
                            "[INFO] Model size",
                            "[INFO] Finished calculation" >>
                    ELSE <<>>,
         kind |-> "return", score |-> Composite(scores), time |-> "scorer_elapsed"]

\* src/metrics/calculate_license_score.py
calculate_license_score(args) ==
    LET license_info == args[1]
        verbosity == args[2]
        matches == license_info \in {"lgpl-2.1", "lgpl-lr", "lgpl", "lgpl-3.0", "gpl-3.0"}
    IN  [msgs |-> IF verbosity >= 1
                    THEN << "[INFO] Starting license score calculation",
                            IF license_info # "" THEN "[INFO] License info found"
                                                 ELSE "[INFO] No license info found",
                            IF matches THEN "[INFO] License matches LGPL-2.1 -> Score = 1.0"
                                       ELSE "[INFO] License does not match LGPL-2.1 -> Score = 0.0",
                            "[INFO] Finished calculation" >>
                    ELSE <<>>,
         kind |-> "return", score |-> Scalar(IF matches THEN 1000 ELSE 0),
         time |-> "scorer_elapsed"]

\* The scorers of the scenarios: scoreA returns (0.6, t), scoreB takes one
\* parameter and returns (1.0, t), scoreC raises, scoreD returns the
\* composite {a: 1.0, b: 0.0}, scoreE the empty composite, scoreX ends the
\* process with exit(1).
scoreA(args) ==
    [msgs |-> <<>>, kind |-> "return", score |-> Scalar(600), time |-> "scorer_elapsed"]
scoreB(args) ==
    [msgs |-> <<>>, kind |-> "return", score |-> Scalar(1000), time |-> "scorer_elapsed"]
scoreC(args) ==
    [msgs |-> <<>>, kind |-> "raise", score |-> Scalar(0), time |-> "none"]
scoreD(args) ==
    [msgs |-> <<>>, kind |-> "return",
     score |-> Composite(("a" :> 1000) @@ ("b" :> 0)), time |-> "scorer_elapsed"]
scoreE(args) ==
    [msgs |-> <<>>, kind |-> "return", score |-> Composite(EmptyMap),
     time |-> "scorer_elapsed"]
scoreX(args) ==
    [msgs |-> <<>>, kind |-> "exit", score |-> Scalar(0), time |-> "none"]

\* Two more scorers: one returning (0.8, t) and one that never returns (a
\* call that blocks for ever).
returns_0_8(args) ==
    [msgs |-> <<>>, kind |-> "return", score |-> Scalar(800), time |-> "scorer_elapsed"]
never_returns(args) ==
    [msgs |-> <<>>, kind |-> "hang", score |-> Scalar(0), time |-> "none"]

\* A registry, the available_functions handed to run_concurrently_from_file,
\* maps a name to a function, written as the name of its operator above.
Registry ==
    ("scoreA" :> "scoreA") @@ ("scoreB" :> "scoreB") @@ ("scoreC" :> "scoreC")
    @@ ("scoreD" :> "scoreD") @@ ("scoreE" :> "scoreE") @@ ("scoreX" :> "scoreX")
    @@ ("failing_task" :> "failing_task")
    @@ ("calculate_size_score" :> "calculate_size_score")

\* The registry in which scoreA is the scorer returning (0.8, t) and scoreX
\* the scorer that never returns.
ScenarioRegistry ==
    ("scoreA" :> "returns_0_8") @@ ("scoreX" :> "never_returns") @@ Registry

\* The registry that holds the license metric as well.
MetricsRegistry ==
    ("calculate_license_score" :> "calculate_license_score") @@ Registry

\* A registry with functions named scoreA_1 and net_score: names that end
\* the way a generated key or the key of the total is spelt.  The function
\* named net_score logs and raises.
KeysRegistry ==
    ("scoreA_1" :> "scoreA") @@ ("net_score" :> "failing_task") @@ Registry

\* len(inspect.signature(func_to_run).parameters)
NumParams(func) ==
    IF func \in {"failing_task", "calculate_size_score", "calculate_license_score"}
      THEN 3 ELSE 1

\* target_func(*args)
target_func(func, args) ==
    CASE func = "scoreA" -> scoreA(args)
      [] func = "scoreB" -> scoreB(args)
      [] func = "scoreC" -> scoreC(args)
      [] func = "scoreD" -> scoreD(args)
      [] func = "scoreE" -> scoreE(args)
      [] func = "scoreX" -> scoreX(args)
      [] func = "returns_0_8" -> returns_0_8(args)
      [] func = "never_returns" -> never_returns(args)
      [] func = "failing_task" -> failing_task(args)
      [] func = "calculate_size_score" -> calculate_size_score(args)
      [] func = "calculate_license_score" -> calculate_license_score(args)

-----------------------------------------------------------------------------
(* Inputs.  A line of the task file is the sequence of its tokens: an      *)
(* identifier is one token, every other character is a token of its own.   *)

\* the classes of characters line_pattern and strip() tell apart: white
\* space, [\d.], and \w (identifiers and digits: whatever is no punctuation)
IsSpace(c) == c = " "
IsWeightChar(c) == c \in {"0", "1", "2", "3", "4", "5", "6", "7", "8", "9", "."}
IsWord(c) == c \notin {" ", "(", ")", ",", ".", "-", "#"}

Minimum(S) == CHOOSE n \in S : \A k \in S : n <= k
Maximum(S) == CHOOSE n \in S : \A k \in S : k <= n

\* the length of the longest run of white space, of weight characters and
\* of word characters that starts at position p of s
RECURSIVE SpaceRun(_, _)
SpaceRun(s, p) ==
    IF p > Len(s) \/ ~IsSpace(s[p]) THEN 0 ELSE 1 + SpaceRun(s, p + 1)

RECURSIVE WeightRun(_, _)
WeightRun(s, p) ==
    IF p > Len(s) \/ ~IsWeightChar(s[p]) THEN 0 ELSE 1 + WeightRun(s, p + 1)

RECURSIVE WordRun(_, _)
WordRun(s, p) ==
    IF p > Len(s) \/ ~IsWord(s[p]) THEN 0 ELSE 1 + WordRun(s, p + 1)

\* s.strip()
Strip(s) ==
    LET black == {k \in 1 .. Len(s) : ~IsSpace(s[k])}
    IN  IF black = {} THEN <<>> ELSE SubSeq(s, Minimum(black), Maximum(black))

\* the string a sequence of tokens spells
RECURSIVE Spell(_)
Spell(s) == IF s = <<>> THEN "" ELSE s[1] \o Spell(Tail(s))

\* key_string.split(',')
RECURSIVE Split(_)
Split(s) ==
    LET commas == {k \in 1 .. Len(s) : s[k] = ","}
    IN  IF commas = {} THEN << s >>
        ELSE << SubSeq(s, 1, Minimum(commas) - 1) >>
                \o Split(SubSeq(s, Minimum(commas) + 1, Len(s)))

\* lines 10-14
parse_keys_from_string(key_string) ==
    IF Strip(key_string) = <<>> THEN <<>>
    ELSE [j \in 1 .. Len(Split(key_string)) |-> Spell(Strip(Split(key_string)[j]))]

\* line_pattern.match(line) for r'(\w+)\((.*)\)\s*([\d.]+)': the name is the
\* run of word characters the line starts with, followed by "("; the greedy
\* (.*) ends at the last ")" after which, white space skipped, a weight
\* character stands; the weight is the run of weight characters there.
\* match() is anchored at the start of the line only: what follows the
\* weight (rest) is not looked at.
line_pattern_match(line) ==
    LET n == WordRun(line, 1)
        WeightAt(j) == j + 1 + SpaceRun(line, j + 1)
        closers == {j \in n + 2 .. Len(line) :
                        line[j] = ")" /\ WeightRun(line, WeightAt(j)) >= 1}
        j == Maximum(closers)
        w == WeightAt(j)
    IN  IF n = 0 \/ n = Len(line) \/ line[n + 1] # "(" \/ closers = {}
          THEN [kind |-> "nomatch", func_name |-> "", keys_str |-> <<>>,
                weight_str |-> <<>>, rest |-> <<>>]
          ELSE [kind |-> "match",
                func_name |-> Spell(SubSeq(line, 1, n)),
                keys_str |-> SubSeq(line, n + 2, j - 1),
                weight_str |-> SubSeq(line, w, w + WeightRun(line, w) - 1),
                rest |-> SubSeq(line, w + WeightRun(line, w), Len(line))]

\* lines 89-96 and 103: the line stripped, blank or matched against the
\* pattern, and the keys of its second group
ReadLine(text) ==
    LET line == Strip(text)
        match == line_pattern_match(line)
    IN  IF line = <<>>
          THEN [kind |-> "blank", func_name |-> "", keys |-> <<>>,
                weight_str |-> <<>>, rest |-> <<>>]
          ELSE [kind |-> match.kind, func_name |-> match.func_name,
                keys |-> parse_keys_from_string(match.keys_str),
                weight_str |-> match.weight_str, rest |-> match.rest]

\* keys written as in a task file: separated by a comma and a space
RECURSIVE CommaSeparated(_)
CommaSeparated(ks) ==
    IF ks = <<>> THEN <<>>
    ELSE IF Len(ks) = 1 THEN << ks[1] >>
    ELSE << ks[1], ",", " " >> \o CommaSeparated(Tail(ks))

\* the line  f(k1, k2, ...) ws  of a task file
TaskLine(f, ks, ws) == << f, "(" >> \o CommaSeparated(ks) \o << ")", " " >> \o ws

BlankLine == <<>>

NoMatchLine == << "#", " ", "tasks" >>

\* int(c) of a digit character
DigitValue(c) ==
    CASE c = "0" -> 0 [] c = "1" -> 1 [] c = "2" -> 2 [] c = "3" -> 3 [] c = "4" -> 4
      [] c = "5" -> 5 [] c = "6" -> 6 [] c = "7" -> 7 [] c = "8" -> 8 [] c = "9" -> 9

\* the number a sequence of digit characters writes
RECURSIVE DigitsValue(_)
DigitsValue(ds) ==
    IF ds = <<>> THEN 0
    ELSE 10 * DigitsValue(SubSeq(ds, 1, Len(ds) - 1)) + DigitValue(ds[Len(ds)])

\* float(weight_str) raises ValueError: of the texts the pattern lets through
\* float accepts those with at most one dot and at least one digit
FloatOfStrRaises(s) ==
    \/ Cardinality({i \in 1 .. Len(s) : s[i] = "."}) > 1
    \/ \A i \in 1 .. Len(s) : s[i] = "."

\* float(weight_str), in tenths, of a text float accepts; the texts of the
\* lines below carry at most one digit after the dot
FloatOfStr(s) ==
    LET dots == {i \in 1 .. Len(s) : s[i] = "."}
        dot == IF dots = {} THEN Len(s) + 1 ELSE CHOOSE i \in dots : TRUE
        frac == SubSeq(s, dot + 1, Len(s))
    IN  10 * DigitsValue(SubSeq(s, 1, dot - 1))
          + (IF frac = <<>> THEN 0 ELSE DigitValue(frac[1]))

Lines ==
    { TaskLine("scoreA", <<"x">>, <<"1", ".", "0">>),
      TaskLine("scoreC", <<"y">>, <<"3", ".", "0">>),
      TaskLine("scoreD", <<"x">>, <<"2", ".", "0">>),
      TaskLine("scoreE", <<"x">>, <<"1", ".", "0">>),
      TaskLine("scoreX", <<"x">>, <<"1", ".", "0">>),
      TaskLine("failing_task", <<"fail_message", "verbosity", "log_queue">>, <<"1", ".", "0">>),
      TaskLine("calculate_size_score", <<"model_size_bytes", "quiet", "log_queue">>, <<"2", ".", "0">>),
      TaskLine("scoreB", <<"x">>, <<"0">>),
      TaskLine("scoreB", <<"x", "y">>, <<"2", ".", "0">>),
      TaskLine("scoreZ", <<"x">>, <<"1", ".", "0">>),
      TaskLine("scoreA", <<"z">>, <<"1", ".", "0">>),
      TaskLine("failing_task", <<"z2", "verbosity", "z1">>, <<"1", ".", "0">>),
      TaskLine("scoreA", <<"x">>, <<"1", ".", "2", ".", "3">>),
      TaskLine("scoreA", <<"x">>, <<".">>),
      BlankLine,
      NoMatchLine }

\* the lines of the runs that add up three products: score * weight is 0.1
\* or 1.6 (scoreB returns 1.0), with a task that logs and a blank line
SumLines ==
    { TaskLine("scoreB", <<"x">>, <<"0", ".", "1">>),
      TaskLine("scoreB", <<"x">>, <<"1", ".", "6">>),
      TaskLine("failing_task", <<"fail_message", "verbosity", "log_queue">>, <<"1", ".", "0">>),
      BlankLine }

\* the lines of the runs about the grammar: a line of the form
\* name(key) weight, the same followed by more text, a line of white space,
\* a comment, a negative weight, no weight, and a task that logs
GrammarLines ==
    { TaskLine("scoreA", <<"x">>, <<"1", ".", "0">>),
      TaskLine("scoreA", <<"x">>, <<"1", ".", "0">>) \o << " ", "#", " ", "note" >>,
      << " ", " " >>,
      NoMatchLine,
      << "scoreA", "(", "x", ")", " ", "-", "1", ".", "0" >>,
      << "scoreA", "(", "x", ")" >>,
      TaskLine("failing_task", <<"fail_message", "verbosity", "log_queue">>, <<"1", ".", "0">>) }

\* the lines of the runs whose report is built: the license metric, the
\* size metric, a scorer build_model_output has no field for, and a task
\* that logs and raises
MetricLines ==
    { TaskLine("calculate_license_score", <<"license", "quiet", "log_queue">>, <<"1", ".", "0">>),
      TaskLine("calculate_size_score", <<"model_size_bytes", "quiet", "log_queue">>, <<"2", ".", "0">>),
      TaskLine("scoreA", <<"x">>, <<"1", ".", "0">>),
      TaskLine("failing_task", <<"fail_message", "verbosity", "log_queue">>, <<"1", ".", "0">>) }

\* the lines of the runs about the keys of the returned maps: scoreA and
\* the functions named scoreA_1 and net_score
KeyLines ==
    { TaskLine("scoreA", <<"x">>, <<"1", ".", "0">>),
      TaskLine("scoreA_1", <<"x">>, <<"1", ".", "0">>),
      TaskLine("net_score", <<"fail_message", "verbosity", "log_queue">>, <<"2", ".", "0">>) }

\* ReadLine, tabulated over the lines of the task files
LinesRead ==
    [text \in Lines \cup SumLines \cup GrammarLines \cup MetricLines \cup KeyLines |->
        ReadLine(text)]

RECURSIVE SeqsUpTo(_, _)
SeqsUpTo(S, n) ==
    IF n = 0 THEN { <<>> }
    ELSE LET shorter == SeqsUpTo(S, n - 1)
         IN  shorter \cup { Append(s, e) : s \in shorter, e \in S }

TaskFiles == SeqsUpTo(Lines, MaxLines)

\* The caller's dictionary: the keys the task lines name (z, z1 and z2 are absent), two
\* verbosity levels, the model size in tenths of a GB, the license and, as
\* run.py does, log_queue bound to the log file's path before the call.
CallerArgs ==
    ("x" :> "val") @@ ("y" :> "val") @@ ("fail_message" :> "This task will fail.")
    @@ ("verbosity" :> 1) @@ ("quiet" :> 0) @@ ("model_size_bytes" :> 30) @@ ("log_queue" :> "log_file_path")
    @@ ("license" :> "lgpl-2.1")

Workers == 1 .. Len(processes)

-----------------------------------------------------------------------------
(* State after the arguments are bound, before the first statement.        *)

\* a local name: bound to a value, or not bound yet
Unbound == [bound |-> FALSE, val |-> ""]
Bound(v) == [bound |-> TRUE, val |-> v]

\* parse_project_file is not called
ProjectFileIdle ==
    /\ project_lines = <<>>
    /\ pp_pc = "idle"
    /\ pp_read = 0
    /\ pp_raised = ""
    /\ project_groups = <<>>
    /\ ns = Unbound
    /\ rp = Unbound
    /\ rev = Unbound
    /\ data_repo = Unbound

InitWith(files, registry) ==
    /\ ProjectFileIdle
    /\ run_no = 1
    /\ taskfile \in files
    /\ available_functions = registry
    /\ all_args_dict = CallerArgs
    /\ d_pc = "init"
    /\ lineno = 1
    /\ processes = <<>>
    /\ idx = 0
    /\ w_pc = <<>>
    /\ w_logged = <<>>
    /\ results_queue = <<>>
    /\ log_queue = <<>>
    /\ logger_pc = "unstarted"
    /\ log_file = <<>>
    /\ func_call_counts = EmptyMap
    /\ scores_dictionary = EmptyMap
    /\ times_dictionary = EmptyMap
    /\ net_score = 0
    /\ returned = <<>>
    /\ submitted = <<>>
    /\ put_count = <<>>
    /\ collected = <<>>

Init == InitWith(TaskFiles, Registry)

-----------------------------------------------------------------------------
(* Queues.                                                                 *)

\* log_queue.put(m)
LogPut(m) ==
    /\ log_queue' = Append(log_queue, m)
    /\ submitted' = Append(submitted, m)

\* the position run_concurrently_from_file is at once line ln is the next to
\* read: the loop of lines 88-123, then the test of line 125
AfterLine(ln, procs) ==
    IF ln <= Len(taskfile) THEN "parse"
    ELSE IF procs = <<>> THEN "notasks" ELSE "start"

-----------------------------------------------------------------------------
(* run_concurrently_from_file, the dispatcher.                             *)

\* lines 70-82: the queues, the logger process started, log_queue bound
StartRun ==
    /\ d_pc = "init"
    /\ logger_pc' = "started"
    /\ all_args_dict' = [k \in DOMAIN all_args_dict \cup {"log_queue"} |->
                            IF k = "log_queue" THEN "log_queue" ELSE all_args_dict[k]]
    /\ d_pc' = AfterLine(1, <<>>)
    /\ UNCHANGED <<url_vars, run_no, taskfile, available_functions, lineno, processes, idx, w_pc, w_logged, results_queue,
                   log_queue, log_file, func_call_counts, scores_dictionary,
                   times_dictionary, net_score, returned, submitted, put_count, collected>>

\* Mutant of ParseOutcome: the number of keys is not compared with the
\* function's number of parameters.
ParseOutcome_NoArityCheck(i, text) ==
    LET line == LinesRead[text]
        required_keys == line.keys
        missing == SelectSeq(required_keys, LAMBDA k : k \notin DOMAIN all_args_dict)
    IN  IF line.kind = "blank" THEN [warn |-> <<>>, task |-> <<>>, raises |-> FALSE]
        ELSE IF line.kind # "match"
            THEN [warn |-> Msg("WARNING", i, "Could not parse syntax", <<>>),
                  task |-> <<>>, raises |-> FALSE]
        ELSE IF line.func_name \notin DOMAIN available_functions
            THEN [warn |-> Msg("WARNING", i, "Function not found", <<>>),
                  task |-> <<>>, raises |-> FALSE]
        ELSE IF missing # <<>>
            THEN [warn |-> Msg("WARNING", i, "Missing required keys", missing),
                  task |-> <<>>, raises |-> FALSE]
        ELSE IF FloatOfStrRaises(line.weight_str)
            THEN [warn |-> <<>>, task |-> <<>>, raises |-> TRUE]
        ELSE [warn |-> <<>>,
              task |-> << [target_func |-> available_functions[line.func_name],
                           func_name |-> line.func_name,
                           weight |-> FloatOfStr(line.weight_str),
                           args |-> [j \in 1 .. Len(required_keys) |->
                                        all_args_dict[required_keys[j]]]] >>,
              raises |-> FALSE]

\* Mutant of ParseOutcome: the missing-keys warning lists every key of the
\* line.
ParseOutcome_ListsAllKeys(i, text) ==
    LET line == LinesRead[text]
        required_keys == line.keys
        missing == SelectSeq(required_keys, LAMBDA k : k \notin DOMAIN all_args_dict)
    IN  IF line.kind = "blank" THEN [warn |-> <<>>, task |-> <<>>, raises |-> FALSE]
        ELSE IF line.kind # "match"
            THEN [warn |-> Msg("WARNING", i, "Could not parse syntax", <<>>),
                  task |-> <<>>, raises |-> FALSE]
        ELSE IF line.func_name \notin DOMAIN available_functions
            THEN [warn |-> Msg("WARNING", i, "Function not found", <<>>),
                  task |-> <<>>, raises |-> FALSE]
        ELSE IF Len(required_keys) # NumParams(available_functions[line.func_name])
            THEN [warn |-> Msg("WARNING", i, "wrong number of keys", <<>>),
                  task |-> <<>>, raises |-> FALSE]
        ELSE IF missing # <<>>
            THEN [warn |-> Msg("WARNING", i, "Missing required keys", required_keys),
                  task |-> <<>>, raises |-> FALSE]
        ELSE IF FloatOfStrRaises(line.weight_str)
            THEN [warn |-> <<>>, task |-> <<>>, raises |-> TRUE]
        ELSE [warn |-> <<>>,
              task |-> << [target_func |-> available_functions[line.func_name],
                           func_name |-> line.func_name,
                           weight |-> FloatOfStr(line.weight_str),
                           args |-> [j \in 1 .. Len(required_keys) |->
                                        all_args_dict[required_keys[j]]]] >>,
              raises |-> FALSE]

\* Mutant of ParseOutcome: the arguments are bound in the reverse of the
\* order the keys are written in.
ParseOutcome_ReversesArgs(i, text) ==
    LET line == LinesRead[text]
        required_keys == line.keys
        missing == SelectSeq(required_keys, LAMBDA k : k \notin DOMAIN all_args_dict)
    IN  IF line.kind = "blank" THEN [warn |-> <<>>, task |-> <<>>, raises |-> FALSE]
        ELSE IF line.kind # "match"
            THEN [warn |-> Msg("WARNING", i, "Could not parse syntax", <<>>),
                  task |-> <<>>, raises |-> FALSE]
        ELSE IF line.func_name \notin DOMAIN available_functions
            THEN [warn |-> Msg("WARNING", i, "Function not found", <<>>),
                  task |-> <<>>, raises |-> FALSE]
        ELSE IF Len(required_keys) # NumParams(available_functions[line.func_name])
            THEN [warn |-> Msg("WARNING", i, "wrong number of keys", <<>>),
                  task |-> <<>>, raises |-> FALSE]
        ELSE IF missing # <<>>
            THEN [warn |-> Msg("WARNING", i, "Missing required keys", missing),
                  task |-> <<>>, raises |-> FALSE]
        ELSE IF FloatOfStrRaises(line.weight_str)
            THEN [warn |-> <<>>, task |-> <<>>, raises |-> TRUE]
        ELSE [warn |-> <<>>,
              task |-> << [target_func |-> available_functions[line.func_name],
                           func_name |-> line.func_name,
                           weight |-> FloatOfStr(line.weight_str),
                           args |-> [j \in 1 .. Len(required_keys) |->
                                        all_args_dict[required_keys[Len(required_keys) + 1 - j]]]] >>,
              raises |-> FALSE]

\* what one iteration of the loop of lines 88-123 does with line number i:
\* the warning it logs (<<>> when it logs nothing), the process it appends,
\* and whether float(weight_str) of line 119 raises ValueError
ParseOutcome(i, text) ==
    LET line == LinesRead[text]
        required_keys == line.keys
        missing == SelectSeq(required_keys, LAMBDA k : k \notin DOMAIN all_args_dict)
    IN  IF line.kind = "blank" THEN [warn |-> <<>>, task |-> <<>>, raises |-> FALSE]
        ELSE IF line.kind # "match"
            THEN [warn |-> Msg("WARNING", i, "Could not parse syntax", <<>>), task |-> <<>>, raises |-> FALSE]
        ELSE IF line.func_name \notin DOMAIN available_functions
            THEN [warn |-> Msg("WARNING", i, "Function not found", <<>>), task |-> <<>>, raises |-> FALSE]
        ELSE IF Len(required_keys) # NumParams(available_functions[line.func_name])
            THEN [warn |-> Msg("WARNING", i, "wrong number of keys", <<>>), task |-> <<>>, raises |-> FALSE]
        ELSE IF missing # <<>>
            THEN [warn |-> Msg("WARNING", i, "Missing required keys", missing), task |-> <<>>, raises |-> FALSE]
        ELSE IF FloatOfStrRaises(line.weight_str)
            THEN [warn |-> <<>>, task |-> <<>>, raises |-> TRUE]
        ELSE [warn |-> <<>>,
              task |-> << [target_func |-> available_functions[line.func_name],
                           func_name |-> line.func_name,
                           weight |-> FloatOfStr(line.weight_str),
                           args |-> [j \in 1 .. Len(required_keys) |->
                                        all_args_dict[required_keys[j]]]] >>,
              raises |-> FALSE]

\* Mutant of ParseLine: each process is started as soon as it is created,
\* before the next line is read.
ParseLine_StartsAtOnce ==
    /\ d_pc = "parse"
    /\ lineno <= Len(taskfile)
    /\ LET out == ParseOutcome(lineno, taskfile[lineno])
       IN  /\ IF out.warn # <<>> THEN LogPut(out.warn)
                                 ELSE UNCHANGED <<log_queue, submitted>>
           /\ processes' = processes \o out.task
           /\ w_pc' = w_pc \o [j \in 1 .. Len(out.task) |-> "running"]
           /\ w_logged' = w_logged \o [j \in 1 .. Len(out.task) |-> 0]
           /\ put_count' = put_count \o [j \in 1 .. Len(out.task) |-> 0]
           /\ lineno' = IF out.raises THEN lineno ELSE lineno + 1
           /\ d_pc' = IF out.raises THEN "raised"
                                    ELSE AfterLine(lineno + 1, processes \o out.task)
    /\ UNCHANGED <<url_vars, run_no, taskfile, available_functions, all_args_dict, idx, results_queue, logger_pc, log_file,
                   func_call_counts, scores_dictionary, times_dictionary, net_score,
                   returned, collected>>

\* The ValueError is caught nowhere in run_concurrently_from_file: it leaves
\* the function at once, the logger never being sent its sentinel.
ParseLine ==
    /\ d_pc = "parse"
    /\ lineno <= Len(taskfile)
    /\ LET out == ParseOutcome(lineno, taskfile[lineno])
       IN  /\ IF out.warn # <<>> THEN LogPut(out.warn)
                                 ELSE UNCHANGED <<log_queue, submitted>>
           /\ processes' = processes \o out.task
           /\ w_pc' = w_pc \o [j \in 1 .. Len(out.task) |-> "created"]
           /\ w_logged' = w_logged \o [j \in 1 .. Len(out.task) |-> 0]
           /\ put_count' = put_count \o [j \in 1 .. Len(out.task) |-> 0]
           /\ lineno' = IF out.raises THEN lineno ELSE lineno + 1
           /\ d_pc' = IF out.raises THEN "raised"
                                    ELSE AfterLine(lineno + 1, processes \o out.task)
    /\ UNCHANGED <<url_vars, run_no, taskfile, available_functions, all_args_dict, idx, results_queue, logger_pc, log_file,
                   func_call_counts, scores_dictionary, times_dictionary, net_score,
                   returned, collected>>

\* lines 125-127: no valid task, the logger is told to stop
NoValidTasks ==
    /\ d_pc = "notasks"
    /\ LogPut(None)
    /\ d_pc' = "early_join"
    /\ UNCHANGED <<url_vars, run_no, taskfile, available_functions, all_args_dict, lineno, processes, idx, w_pc, w_logged,
                   results_queue, logger_pc, log_file, func_call_counts,
                   scores_dictionary, times_dictionary, net_score, returned, put_count, collected>>

\* logger.join() returns once the logger process has ended, whichever way
LoggerEnded == logger_pc \in {"exited", "failed"}

\* lines 128-129: logger.join(), return {'net_score': 0.0}, {}
EarlyReturn ==
    /\ d_pc = "early_join"
    /\ LoggerEnded
    /\ returned' = << ("net_score" :> 0), EmptyMap >>
    /\ d_pc' = "returned"
    /\ UNCHANGED <<url_vars, run_no, taskfile, available_functions, all_args_dict, lineno, processes, idx, w_pc, w_logged,
                   results_queue, log_queue, logger_pc, log_file, func_call_counts,
                   scores_dictionary, times_dictionary, net_score, submitted, put_count, collected>>

\* Mutant of StartWorker: the dispatcher records the process it starts in
\* the parameter dictionary.
StartWorker_WritesStore ==
    /\ d_pc = "start"
    /\ idx < Len(processes)
    /\ w_pc' = [w_pc EXCEPT ![idx + 1] = "running"]
    /\ idx' = IF idx + 1 = Len(processes) THEN 0 ELSE idx + 1
    /\ d_pc' = IF idx + 1 = Len(processes) THEN "collect" ELSE "start"
    /\ all_args_dict' = [k \in DOMAIN all_args_dict \cup {"started"} |->
                            IF k = "started" THEN idx + 1 ELSE all_args_dict[k]]
    /\ UNCHANGED <<url_vars, run_no, taskfile, available_functions, lineno, processes, w_logged, results_queue,
                   log_queue, logger_pc, log_file, func_call_counts, scores_dictionary,
                   times_dictionary, net_score, returned, submitted, put_count, collected>>

\* line 132: for p in processes: p.start(), one process per step
StartWorker ==
    /\ d_pc = "start"
    /\ idx < Len(processes)
    /\ w_pc' = [w_pc EXCEPT ![idx + 1] = "running"]
    /\ idx' = IF idx + 1 = Len(processes) THEN 0 ELSE idx + 1
    /\ d_pc' = IF idx + 1 = Len(processes) THEN "collect" ELSE "start"
    /\ UNCHANGED <<url_vars, run_no, taskfile, available_functions, all_args_dict, lineno, processes, w_logged, results_queue,
                   log_queue, logger_pc, log_file, func_call_counts, scores_dictionary,
                   times_dictionary, net_score, returned, submitted, put_count, collected>>

\* Mutant of unique_key: the first result of a name is stored under the bare
\* name, the suffix being given to the repeats only.
unique_key_SuffixOnlyRepeats(func_name, count) ==
    IF count = 1 THEN func_name ELSE func_name \o "_" \o ToString(count)

\* Mutant of unique_key: the occurrence counter is left out of the key.
unique_key_NoCount(func_name, count) == func_name

\* line 144: f"{func_name}_{func_call_counts[func_name]}"
unique_key(func_name, count) == func_name \o "_" \o ToString(count)

\* Python's floats are binary floating point: the result of an operation is
\* the exact result rounded to the nearest number whose significand fits in
\* a fixed number of bits, ties going to the even significand.  CPython has
\* 53 bits; the numbers of this model are small integers, which 53 bits
\* would never round, so the width is reduced until rounding happens
\* within their range.
SignificandBits == 11

RECURSIVE Pow2(_)
Pow2(k) == IF k = 0 THEN 1 ELSE 2 * Pow2(k - 1)

\* n.bit_length()
RECURSIVE BitLength(_)
BitLength(n) == IF n = 0 THEN 0 ELSE 1 + BitLength(n \div 2)

\* the float nearest to the non-negative number n
RoundFloat(n) ==
    IF n < Pow2(SignificandBits) THEN n
    ELSE LET unit == Pow2(BitLength(n) - SignificandBits)
             q == n \div unit
             r == n % unit
         IN  IF 2 * r > unit \/ (2 * r = unit /\ q % 2 = 1)
               THEN (q + 1) * unit
               ELSE q * unit

\* a + b and a * b on floats
FloatAdd(a, b) == RoundFloat(a + b)
FloatMul(a, b) == RoundFloat(a * b)

\* func_call_counts[func_name] of a defaultdict(int)
CallCount(counts, func_name) ==
    IF func_name \in DOMAIN counts THEN counts[func_name] ELSE 0

\* d[k] = v
DictSet(d, k, v) == [x \in DOMAIN d \cup {k} |-> IF x = k THEN v ELSE d[x]]

\* Mutant of Collect: the suffix of the key is the task's rank among the
\* tasks of its name in the task file, not the rank of its result among the
\* results collected.
Collect_KeysByFileOrder ==
    /\ d_pc = "collect"
    /\ results_queue # <<>>
    /\ LET r == Head(results_queue)
           count == CallCount(func_call_counts, r.func_name) + 1
           key == unique_key(r.func_name,
                             Cardinality({w \in 1 .. r.src :
                                             processes[w].func_name = r.func_name}))
           net == FloatAdd(net_score, FloatMul(r.score, r.weight))
           last == idx + 1 = Len(processes)
           scores == DictSet(scores_dictionary, key, r.score)
       IN  /\ results_queue' = Tail(results_queue)
           /\ func_call_counts' = DictSet(func_call_counts, r.func_name, count)
           /\ scores_dictionary' = IF last THEN DictSet(scores, "net_score", net)
                                           ELSE scores
           /\ times_dictionary' = DictSet(times_dictionary, key, r.time_taken)
           /\ net_score' = net
           /\ idx' = IF last THEN 0 ELSE idx + 1
           /\ d_pc' = IF last THEN "join" ELSE "collect"
           /\ collected' = Append(collected, [key |-> key, result |-> r])
    /\ UNCHANGED <<url_vars, run_no, taskfile, available_functions, all_args_dict, lineno, processes, w_pc, w_logged,
                   log_queue, logger_pc, log_file, returned, submitted, put_count>>

\* lines 141-148: one iteration of the collection loop, results_queue.get()
\* blocking while the queue is empty; after the last one net_score is stored
Collect ==
    /\ d_pc = "collect"
    /\ results_queue # <<>>
    /\ LET r == Head(results_queue)
           count == CallCount(func_call_counts, r.func_name) + 1
           key == unique_key(r.func_name, count)
           net == FloatAdd(net_score, FloatMul(r.score, r.weight))
           last == idx + 1 = Len(processes)
           scores == DictSet(scores_dictionary, key, r.score)
       IN  /\ results_queue' = Tail(results_queue)
           /\ func_call_counts' = DictSet(func_call_counts, r.func_name, count)
           /\ scores_dictionary' = IF last THEN DictSet(scores, "net_score", net)
                                           ELSE scores
           /\ times_dictionary' = DictSet(times_dictionary, key, r.time_taken)
           /\ net_score' = net
           /\ idx' = IF last THEN 0 ELSE idx + 1
           /\ d_pc' = IF last THEN "join" ELSE "collect"
           /\ collected' = Append(collected, [key |-> key, result |-> r])
    /\ UNCHANGED <<url_vars, run_no, taskfile, available_functions, all_args_dict, lineno, processes, w_pc, w_logged,
                   log_queue, logger_pc, log_file, returned, submitted, put_count>>

\* Mutant of JoinWorker: the join does not wait for the process to end.
JoinWorker_NoWait ==
    /\ d_pc = "join"
    /\ idx < Len(processes)
    /\ idx' = idx + 1
    /\ d_pc' = IF idx + 1 = Len(processes) THEN "sentinel" ELSE "join"
    /\ UNCHANGED <<url_vars, run_no, taskfile, available_functions, all_args_dict, lineno, processes, w_pc, w_logged,
                   results_queue, log_queue, logger_pc, log_file, func_call_counts,
                   scores_dictionary, times_dictionary, net_score, returned, submitted,
                   put_count, collected>>

\* Mutant of JoinWorker: only the first process is joined.
JoinWorker_JoinsFirstOnly ==
    /\ d_pc = "join"
    /\ idx < Len(processes)
    /\ w_pc[1] \in {"exited", "dead"}
    /\ idx' = Len(processes)
    /\ d_pc' = "sentinel"
    /\ UNCHANGED <<url_vars, run_no, taskfile, available_functions, all_args_dict, lineno, processes, w_pc, w_logged,
                   results_queue, log_queue, logger_pc, log_file, func_call_counts,
                   scores_dictionary, times_dictionary, net_score, returned, submitted,
                   put_count, collected>>

\* line 150: for p in processes: p.join(), returning once the process ended
JoinWorker ==
    /\ d_pc = "join"
    /\ idx < Len(processes)
    /\ w_pc[idx + 1] \in {"exited", "dead"}
    /\ idx' = idx + 1
    /\ d_pc' = IF idx + 1 = Len(processes) THEN "sentinel" ELSE "join"
    /\ UNCHANGED <<url_vars, run_no, taskfile, available_functions, all_args_dict, lineno, processes, w_pc, w_logged,
                   results_queue, log_queue, logger_pc, log_file, func_call_counts,
                   scores_dictionary, times_dictionary, net_score, returned, submitted,
                   put_count, collected>>

\* line 155: log_queue.put(None)
SendSentinel ==
    /\ d_pc = "sentinel"
    /\ LogPut(None)
    /\ d_pc' = "joinlog"
    /\ UNCHANGED <<url_vars, run_no, taskfile, available_functions, all_args_dict, lineno, processes, idx, w_pc, w_logged,
                   results_queue, logger_pc, log_file, func_call_counts,
                   scores_dictionary, times_dictionary, net_score, returned, put_count, collected>>

\* lines 157-159: logger.join(), return scores_dictionary, times_dictionary
JoinLoggerAndReturn ==
    /\ d_pc = "joinlog"
    /\ LoggerEnded
    /\ returned' = <<scores_dictionary, times_dictionary>>
    /\ d_pc' = "returned"
    /\ UNCHANGED <<url_vars, run_no, taskfile, available_functions, all_args_dict, lineno, processes, idx, w_pc, w_logged,
                   results_queue, log_queue, logger_pc, log_file, func_call_counts,
                   scores_dictionary, times_dictionary, net_score, submitted, put_count, collected>>

-----------------------------------------------------------------------------
(* process_worker, one process per dispatched task.                        *)

\* what the scorer of worker w does when called with the task's arguments
Call(w) == target_func(processes[w].target_func, processes[w].args)

\* float(score): a number for a scalar, TypeError for a dict
FloatRaises(score) == score.shape # "scalar"
Float(score) == score.val

\* the tuple a worker puts; src names the worker that put it (history only,
\* nothing in the dispatcher reads it)
Result(s, t, w) ==
    [score |-> s, time_taken |-> t, weight |-> processes[w].weight,
     func_name |-> processes[w].func_name, src |-> w]

\* result_queue.put(r) by worker w
ResultPut(w, r) ==
    /\ results_queue' = Append(results_queue, r)
    /\ put_count' = [put_count EXCEPT ![w] = @ + 1]

\* the scorer, running inside the worker, puts its next message on the log queue
WorkerLog(w) ==
    /\ w_pc[w] = "running"
    /\ w_logged[w] < Len(Call(w).msgs)
    /\ LogPut(Msg("worker", w, Call(w).msgs[w_logged[w] + 1], <<>>))
    /\ w_logged' = [w_logged EXCEPT ![w] = @ + 1]
    /\ UNCHANGED <<url_vars, run_no, taskfile, available_functions, all_args_dict, d_pc, lineno, processes, idx, w_pc,
                   results_queue, logger_pc, log_file, func_call_counts,
                   scores_dictionary, times_dictionary, net_score, returned, put_count, collected>>

\* Mutant of ExceptClause: the exception is re-raised, nothing is put and
\* the process ends with the exception.
ExceptClause_Reraises(w) ==
    /\ w_pc' = [w_pc EXCEPT ![w] = "dead"]
    /\ UNCHANGED <<results_queue, put_count>>

\* lines 43-48: the except clause puts the fallback result
ExceptClause(w) ==
    /\ ResultPut(w, Result(0, "worker_elapsed", w))
    /\ w_pc' = [w_pc EXCEPT ![w] = "done"]

\* Mutant of TryPut: a failure after the put lands in the except clause,
\* which puts a second result.
TryPut_PutsTwice(w) ==
    /\ results_queue' = results_queue \o
            << Result(IF FloatRaises(Call(w).score) THEN 0 ELSE Float(Call(w).score),
                      Call(w).time, w),
               Result(0, "worker_elapsed", w) >>
    /\ put_count' = [put_count EXCEPT ![w] = @ + 2]
    /\ w_pc' = [w_pc EXCEPT ![w] = "done"]

\* line 42: the floats are built and the result is put; a TypeError of
\* float(score) is raised inside the try and lands in the except clause
TryPut(w) ==
    IF FloatRaises(Call(w).score)
      THEN ExceptClause(w)
      ELSE /\ ResultPut(w, Result(Float(Call(w).score), Call(w).time, w))
           /\ w_pc' = [w_pc EXCEPT ![w] = "done"]

\* lines 39-48, once the scorer has logged what it logs: the call
\* target_func(*args) returns and the result is put, or it raises an
\* Exception and the except clause runs, or it ends the process (SystemExit
\* is no Exception) and nothing is put.  Nothing outside the worker can
\* observe a state between the scorer's end and the put.  A scorer that
\* never returns leaves the worker inside the call of line 41 for ever.
WorkerCall(w) ==
    /\ w_pc[w] = "running"
    /\ w_logged[w] = Len(Call(w).msgs)
    /\ Call(w).kind # "hang"
    /\ CASE Call(w).kind = "return" -> TryPut(w)
         [] Call(w).kind = "raise" -> ExceptClause(w)
         [] Call(w).kind = "exit" ->
                /\ w_pc' = [w_pc EXCEPT ![w] = "dead"]
                /\ UNCHANGED <<results_queue, put_count, collected>>
    /\ UNCHANGED <<url_vars, run_no, taskfile, available_functions, all_args_dict, d_pc, lineno, processes, idx, w_logged,
                   log_queue, logger_pc, log_file, func_call_counts, scores_dictionary,
                   times_dictionary, net_score, returned, submitted, collected>>

\* Mutant of WorkerExit: a worker whose scorer raised runs its task again.
WorkerExit_Restarts(w) ==
    /\ w_pc[w] = "done"
    /\ w_pc' = [w_pc EXCEPT ![w] = IF Call(w).kind = "raise" THEN "running" ELSE "exited"]
    /\ UNCHANGED <<url_vars, run_no, taskfile, available_functions, all_args_dict, d_pc, lineno, processes, idx, w_logged,
                   results_queue, log_queue, logger_pc, log_file, func_call_counts,
                   scores_dictionary, times_dictionary, net_score, returned, submitted,
                   put_count, collected>>

\* process_worker returns and the process ends
WorkerExit(w) ==
    /\ w_pc[w] = "done"
    /\ w_pc' = [w_pc EXCEPT ![w] = "exited"]
    /\ UNCHANGED <<url_vars, run_no, taskfile, available_functions, all_args_dict, d_pc, lineno, processes, idx, w_logged,
                   results_queue, log_queue, logger_pc, log_file, func_call_counts,
                   scores_dictionary, times_dictionary, net_score, returned, submitted,
                   put_count, collected>>

-----------------------------------------------------------------------------
(* logger_process, the log collector.                                      *)

\* Mutant of LoggerOpen: the file is opened for appending, what it held is
\* kept.
LoggerOpen_Appends ==
    /\ logger_pc = "started"
    /\ log_file' = Append(log_file, Msg("Log started", 0, "", <<>>))
    /\ logger_pc' = "loop"
    /\ UNCHANGED <<url_vars, run_no, taskfile, available_functions, all_args_dict, d_pc, lineno, processes, idx, w_pc,
                   w_logged, results_queue, log_queue, func_call_counts,
                   scores_dictionary, times_dictionary, net_score, returned, submitted,
                   put_count, collected>>

\* lines 21-22: the file is opened for writing and the start line written
LoggerOpen ==
    /\ logger_pc = "started"
    /\ log_file' = << Msg("Log started", 0, "", <<>>) >>
    /\ logger_pc' = "loop"
    /\ UNCHANGED <<url_vars, run_no, taskfile, available_functions, all_args_dict, d_pc, lineno, processes, idx, w_pc,
                   w_logged, results_queue, log_queue, func_call_counts,
                   scores_dictionary, times_dictionary, net_score, returned, submitted,
                   put_count, collected>>

\* lines 21, 30-31: open() raises (the path cannot be written); the except
\* clause prints the error in the logger process, which then ends
LoggerOpenFails ==
    /\ logger_pc = "started"
    /\ logger_pc' = "failed"
    /\ UNCHANGED <<url_vars, run_no, taskfile, available_functions, all_args_dict, d_pc, lineno, processes,
                   idx, w_pc, w_logged, results_queue, log_queue, log_file,
                   func_call_counts, scores_dictionary, times_dictionary, net_score,
                   returned, submitted, put_count, collected>>

\* Mutant of LoggerGet: the newest message of the queue is taken, not the
\* oldest.
LoggerGet_TakesNewest ==
    /\ logger_pc = "loop"
    /\ log_queue # <<>>
    /\ LET message == log_queue[Len(log_queue)]
       IN  /\ log_queue' = SubSeq(log_queue, 1, Len(log_queue) - 1)
           /\ IF message = None
                THEN /\ log_file' = Append(log_file, Msg("Log ended", 0, "", <<>>))
                     /\ logger_pc' = "exited"
                ELSE /\ log_file' = Append(log_file, message)
                     /\ logger_pc' = "loop"
    /\ UNCHANGED <<url_vars, run_no, taskfile, available_functions, all_args_dict, d_pc, lineno, processes, idx, w_pc,
                   w_logged, results_queue, func_call_counts, scores_dictionary,
                   times_dictionary, net_score, returned, submitted, put_count, collected>>

\* Mutant of LoggerGet: after the end line is written for a None the loop
\* goes on taking messages.
LoggerGet_KeepsOn ==
    /\ logger_pc = "loop"
    /\ log_queue # <<>>
    /\ LET message == Head(log_queue)
       IN  /\ log_queue' = Tail(log_queue)
           /\ IF message = None
                THEN log_file' = Append(log_file, Msg("Log ended", 0, "", <<>>))
                ELSE log_file' = Append(log_file, message)
           /\ logger_pc' = "loop"
    /\ UNCHANGED <<url_vars, run_no, taskfile, available_functions, all_args_dict, d_pc, lineno, processes, idx, w_pc,
                   w_logged, results_queue, func_call_counts, scores_dictionary,
                   times_dictionary, net_score, returned, submitted, put_count, collected>>

\* lines 24-29: one iteration of the loop, log_queue.get() blocking while
\* the queue is empty
LoggerGet ==
    /\ logger_pc = "loop"
    /\ log_queue # <<>>
    /\ LET message == Head(log_queue)
       IN  /\ log_queue' = Tail(log_queue)
           /\ IF message = None
                THEN /\ log_file' = Append(log_file, Msg("Log ended", 0, "", <<>>))
                     /\ logger_pc' = "exited"
                ELSE /\ log_file' = Append(log_file, message)
                     /\ logger_pc' = "loop"
    /\ UNCHANGED <<url_vars, run_no, taskfile, available_functions, all_args_dict, d_pc, lineno, processes, idx, w_pc,
                   w_logged, results_queue, func_call_counts, scores_dictionary,
                   times_dictionary, net_score, returned, submitted, put_count, collected>>

-----------------------------------------------------------------------------

Next ==
    \/ StartRun
    \/ ParseLine
    \/ NoValidTasks
    \/ EarlyReturn
    \/ StartWorker
    \/ Collect
    \/ JoinWorker
    \/ SendSentinel
    \/ JoinLoggerAndReturn
    \/ \E w \in Workers : WorkerLog(w)
    \/ \E w \in Workers : WorkerCall(w)
    \/ \E w \in Workers : WorkerExit(w)
    \/ LoggerOpen
    \/ LoggerGet

Spec == Init /\ [][Next]_vars

\* lines 70-86 when open(tasks_filename) raises (the task file is missing
\* or unreadable): the logger is started and log_queue bound as in StartRun,
\* then the exception leaves run_concurrently_from_file
OpenTaskFileFails ==
    /\ d_pc = "init"
    /\ logger_pc' = "started"
    /\ all_args_dict' = [k \in DOMAIN all_args_dict \cup {"log_queue"} |->
                            IF k = "log_queue" THEN "log_queue" ELSE all_args_dict[k]]
    /\ d_pc' = "raised"
    /\ UNCHANGED <<url_vars, run_no, taskfile, available_functions, lineno, processes, idx, w_pc, w_logged,
                   results_queue, log_queue, log_file, func_call_counts, scores_dictionary,
                   times_dictionary, net_score, returned, submitted, put_count, collected>>

\* The runs in which the task file may fail to open.
NextTaskFileUnreadable == Next \/ OpenTaskFileFails

SpecTaskFileUnreadable == Init /\ [][NextTaskFileUnreadable]_vars

\* The runs in which the log file may fail to open.
NextLogFileUnwritable == Next \/ LoggerOpenFails

SpecLogFileUnwritable == Init /\ [][NextLogFileUnwritable]_vars

\* The runs of up to MaxGrammarLines of the lines GrammarLines.
MaxGrammarLines == 2

SpecGrammar == InitWith(SeqsUpTo(GrammarLines, MaxGrammarLines), Registry) /\ [][Next]_vars

\* The runs of up to MaxSumLines of the lines SumLines.
MaxSumLines == 3

SpecSums == InitWith(SeqsUpTo(SumLines, MaxSumLines), Registry) /\ [][Next]_vars

\* The runs with the registry of the scenarios.
SpecScenario == InitWith(TaskFiles, ScenarioRegistry) /\ [][Next]_vars

\* Longest task file of the runs whose report is built.
MaxMetricLines == 2

\* The runs of the metric lines.
SpecMetrics == InitWith(SeqsUpTo(MetricLines, MaxMetricLines), MetricsRegistry) /\ [][Next]_vars

\* Longest task file of the runs about the keys of the returned maps.
MaxKeyLines == 2

\* The runs of the key lines.
SpecKeys == InitWith(SeqsUpTo(KeyLines, MaxKeyLines), KeysRegistry) /\ [][Next]_vars

-----------------------------------------------------------------------------
(* main of src/run.py: one run of run_concurrently_from_file per project   *)
(* group, each with the same task file, the same registry and the same     *)
(* log file path.                                                          *)

\* Most runs main makes (the number of project groups).
MaxRuns == 2

\* lines 120-139, the next turn of the loop over the project groups, once
\* the run before has returned and its report is written: a new input_dict
\* is built and run_concurrently_from_file is called again.  The call makes
\* its own queues and processes; the file at log_file_path is what the run
\* before left there.
NextRun ==
    /\ d_pc = "returned"
    /\ run_no < MaxRuns
    /\ run_no' = run_no + 1
    /\ all_args_dict' = CallerArgs
    /\ d_pc' = "init"
    /\ lineno' = 1
    /\ processes' = <<>>
    /\ idx' = 0
    /\ w_pc' = <<>>
    /\ w_logged' = <<>>
    /\ results_queue' = <<>>
    /\ log_queue' = <<>>
    /\ logger_pc' = "unstarted"
    /\ func_call_counts' = EmptyMap
    /\ scores_dictionary' = EmptyMap
    /\ times_dictionary' = EmptyMap
    /\ net_score' = 0
    /\ returned' = <<>>
    /\ submitted' = <<>>
    /\ put_count' = <<>>
    /\ collected' = <<>>
    /\ UNCHANGED <<url_vars, taskfile, available_functions, log_file>>

NextRuns == Next \/ NextRun

\* The runs of main over the task files of the lines GrammarLines.
SpecRuns == InitWith(SeqsUpTo(GrammarLines, MaxGrammarLines), Registry) /\ [][NextRuns]_vars

-----------------------------------------------------------------------------
(* logger_process on its own: the process is handed a queue on which any   *)
(* holder of the queue may put messages and None, in any order and at any  *)
(* time, before and after the logger has ended.                            *)

\* Most puts on the queue of a logger explored.
MaxPuts == 4

\* what is put on the queue
QueueItems == { Msg("worker", 1, "a", <<>>), Msg("WARNING", 1, "b", <<>>), None }

\* line 16: logger_process(log_queue, log_file_path) is entered; no run of
\* run_concurrently_from_file is under way
InitLogger ==
    /\ ProjectFileIdle
    /\ run_no = 1
    /\ taskfile = <<>>
    /\ available_functions = Registry
    /\ all_args_dict = CallerArgs
    /\ d_pc = "idle"
    /\ lineno = 1
    /\ processes = <<>>
    /\ idx = 0
    /\ w_pc = <<>>
    /\ w_logged = <<>>
    /\ results_queue = <<>>
    /\ log_queue = <<>>
    /\ logger_pc = "started"
    /\ log_file = <<>>
    /\ func_call_counts = EmptyMap
    /\ scores_dictionary = EmptyMap
    /\ times_dictionary = EmptyMap
    /\ net_score = 0
    /\ returned = <<>>
    /\ submitted = <<>>
    /\ put_count = <<>>
    /\ collected = <<>>

\* a holder of the queue puts m on it
QueuePut(m) ==
    /\ Len(submitted) < MaxPuts
    /\ LogPut(m)
    /\ UNCHANGED <<url_vars, run_no, taskfile, available_functions, all_args_dict, d_pc, lineno, processes, idx, w_pc,
                   w_logged, results_queue, logger_pc, log_file, func_call_counts,
                   scores_dictionary, times_dictionary, net_score, returned, put_count, collected>>

NextLogger ==
    \/ LoggerOpen
    \/ LoggerGet
    \/ \E m \in QueueItems : QueuePut(m)

SpecLogger == InitLogger /\ [][NextLogger]_vars

-----------------------------------------------------------------------------
(* parse_project_file of src/url_class.py.  A link, like a line, is the    *)
(* sequence of its tokens: << "https", ":", "/", "/", host, "/", segment,  *)
(* ... >>.                                                                 *)

\* s.strip(c)
StripOf(s, c) ==
    LET kept == {k \in 1 .. Len(s) : s[k] # c}
    IN  IF kept = {} THEN <<>> ELSE SubSeq(s, Minimum(kept), Maximum(kept))

\* s.split(c)
RECURSIVE SplitAt(_, _)
SplitAt(s, c) ==
    LET seps == {k \in 1 .. Len(s) : s[k] = c}
    IN  IF seps = {} THEN << s >>
        ELSE << SubSeq(s, 1, Minimum(seps) - 1) >>
                \o SplitAt(SubSeq(s, Minimum(seps) + 1, Len(s)), c)

\* urlparse(url), its netloc and path: after scheme://, the netloc runs to
\* the next "/" and the path is the rest; a text without "//" is all path
urlparse(url) ==
    IF Len(url) >= 4 /\ url[2] = ":" /\ url[3] = "/" /\ url[4] = "/"
      THEN LET slashes == {k \in 5 .. Len(url) : url[k] = "/"}
               end == IF slashes = {} THEN Len(url) + 1 ELSE Minimum(slashes)
           IN  [netloc |-> SubSeq(url, 5, end - 1), path |-> SubSeq(url, end, Len(url))]
      ELSE [netloc |-> <<>>, path |-> url]

\* name in netloc; a host is one token, and no host of the inputs contains
\* another one
InNetloc(name, netloc) == \E k \in 1 .. Len(netloc) : netloc[k] = name

\* lines 38-60
parse_huggingface_url(url) ==
    LET parts == SplitAt(StripOf(urlparse(url).path, "/"), "/")
    IN  IF Len(parts) < 1
          THEN [raises |-> "ValueError", namespace |-> "", repo |-> "", rev |-> ""]
        ELSE IF Len(parts) = 1
          THEN [raises |-> "",
                namespace |-> Spell(SplitAt(StripOf(url, "/"), "-")[1]),
                repo |-> Spell(parts[1]),
                rev |-> "main"]
        ELSE [raises |-> "",
              namespace |-> Spell(parts[1]),
              repo |-> Spell(parts[2]),
              rev |-> IF Len(parts) >= 4 /\ parts[3] = << "tree" >>
                        THEN Spell(parts[4]) ELSE "main"]

\* lines 66-95
parse_dataset_url(url) ==
    LET parsed == urlparse(url)
        parts == SplitAt(StripOf(parsed.path, "/"), "/")
    IN  IF InNetloc("huggingface.co", parsed.netloc)
          THEN IF Len(parts) < 2 \/ parts[1] # << "datasets" >>
                 THEN [raises |-> "ValueError", repo |-> ""]
                 ELSE [raises |-> "", repo |-> Spell(parts[Len(parts)])]
        ELSE IF InNetloc("github.com", parsed.netloc)
          THEN [raises |-> "", repo |-> Spell(url)]
        ELSE [raises |-> "ValueError", repo |-> ""]

\* lines 121-124: the fields of a line, stripped and padded to three
RECURSIVE Padded(_)
Padded(parts) == IF Len(parts) < 3 THEN Padded(Append(parts, <<>>)) ELSE parts
LineParts(line) ==
    Padded([j \in 1 .. Len(Split(line)) |-> Strip(Split(line)[j])])

\* lines 117-138, one turn of the loop over the lines of the file: what is
\* raised, the locals as the turn leaves them and the group appended.  A
\* local the turn does not assign keeps what an earlier turn bound it to;
\* reading one that was never bound raises UnboundLocalError.
ProjectLineOutcome(text) ==
    LET line == Strip(text)
        parts == LineParts(line)
        kept == [raises |-> "", blank |-> FALSE, ns |-> ns, rp |-> rp, rev |-> rev,
                 data_repo |-> data_repo, group |-> <<>>]
        hf == parse_huggingface_url(parts[3])
        ds == parse_dataset_url(parts[2])
        with_model == IF parts[3] # <<>>
                        THEN [kept EXCEPT !.ns = Bound(hf.namespace), !.rp = Bound(hf.repo),
                                          !.rev = Bound(hf.rev)]
                        ELSE kept
        with_data == IF parts[2] # <<>>
                       THEN [with_model EXCEPT !.data_repo = Bound(ds.repo)]
                       ELSE with_model
    IN  IF line = <<>> THEN [kept EXCEPT !.blank = TRUE]
        ELSE IF Len(parts) > 3 THEN [kept EXCEPT !.raises = "ValueError"]
        ELSE IF parts[3] # <<>> /\ hf.raises # "" THEN [kept EXCEPT !.raises = hf.raises]
        ELSE IF parts[2] # <<>> /\ ds.raises # ""
          THEN [with_model EXCEPT !.raises = ds.raises]
        ELSE IF Unbound \in {with_data.data_repo, with_data.ns, with_data.rp, with_data.rev}
          THEN [with_data EXCEPT !.raises = "UnboundLocalError"]
        ELSE [with_data EXCEPT !.group =
                << [code |-> [link |-> Spell(parts[1]), namespace |-> ""],
                    dataset |-> [link |-> Spell(parts[2]), namespace |-> "",
                                 repo |-> with_data.data_repo.val, rev |-> ""],
                    model |-> [link |-> Spell(parts[3]), namespace |-> with_data.ns.val,
                               repo |-> with_data.rp.val, rev |-> with_data.rev.val]] >>]

\* lines 116-138: the next line of the file is read and handled
ReadProjectLine ==
    /\ pp_pc = "loop"
    /\ pp_read < Len(project_lines)
    /\ LET out == ProjectLineOutcome(project_lines[pp_read + 1])
       IN  /\ pp_read' = pp_read + 1
           /\ pp_raised' = out.raises
           /\ pp_pc' = IF out.raises # "" THEN "raised" ELSE "loop"
           /\ ns' = out.ns
           /\ rp' = out.rp
           /\ rev' = out.rev
           /\ data_repo' = out.data_repo
           /\ project_groups' = project_groups \o out.group
    /\ UNCHANGED <<project_lines, run_no, run_vars>>

\* line 140: return project_groups
ReturnProjectGroups ==
    /\ pp_pc = "loop"
    /\ pp_read = Len(project_lines)
    /\ pp_pc' = "returned"
    /\ UNCHANGED <<project_lines, pp_read, pp_raised, project_groups, ns, rp, rev,
                   data_repo, run_no, run_vars>>

\* links
GitHubLink == << "https", ":", "/", "/", "github.com", "/", "a", "/", "b" >>
DatasetLink ==
    << "https", ":", "/", "/", "huggingface.co", "/", "datasets", "/", "x", "/", "imdb" >>
ModelLink == << "https", ":", "/", "/", "huggingface.co", "/", "ns", "/", "rp" >>
ModelRevLink == ModelLink \o << "/", "tree", "/", "v2" >>
ModelCom == << "http", ":", "/", "/", "model.com" >>

\* the line  code_link,dataset_link,model_link
ProjectLine(code_link, dataset_link, model_link) ==
    code_link \o << "," >> \o dataset_link \o << "," >> \o model_link

\* The lines of a project file: three links; ',,http://model.com'; no model
\* link; a code link alone; a blank line; four fields; a dataset link that
\* is no URL; a model link with a revision.
ProjectLines ==
    { ProjectLine(GitHubLink, DatasetLink, ModelLink),
      ProjectLine(<<>>, <<>>, ModelCom),
      ProjectLine(GitHubLink, DatasetLink, <<>>),
      GitHubLink,
      << " " >>,
      ProjectLine(GitHubLink, DatasetLink, ModelLink) \o << "," >> \o ModelLink,
      ProjectLine(<<>>, << "imdb" >>, ModelLink),
      ProjectLine(GitHubLink, << " " >> \o DatasetLink, ModelRevLink) }

\* Longest project file explored.
MaxProjectLines == 2

\* parse_project_file(filepath) is called; nothing else runs
InitProjectFile ==
    /\ project_lines \in SeqsUpTo(ProjectLines, MaxProjectLines)
    /\ pp_pc = "loop"
    /\ pp_read = 0
    /\ pp_raised = ""
    /\ project_groups = <<>>
    /\ ns = Unbound
    /\ rp = Unbound
    /\ rev = Unbound
    /\ data_repo = Unbound
    /\ run_no = 1
    /\ taskfile = <<>>
    /\ available_functions = Registry
    /\ all_args_dict = CallerArgs
    /\ d_pc = "init"
    /\ lineno = 1
    /\ processes = <<>>
    /\ idx = 0
    /\ w_pc = <<>>
    /\ w_logged = <<>>
    /\ results_queue = <<>>
    /\ log_queue = <<>>
    /\ logger_pc = "unstarted"
    /\ log_file = <<>>
    /\ func_call_counts = EmptyMap
    /\ scores_dictionary = EmptyMap
    /\ times_dictionary = EmptyMap
    /\ net_score = 0
    /\ returned = <<>>
    /\ submitted = <<>>
    /\ put_count = <<>>
    /\ collected = <<>>

NextProjectFile == ReadProjectLine \/ ReturnProjectGroups

SpecProjectFile == InitProjectFile /\ [][NextProjectFile]_vars

-----------------------------------------------------------------------------
(* What a finished run returned.                                           *)

Returned == d_pc = "returned"
Dispatched == Len(processes)

RECURSIVE SumTo(_, _)
SumTo(f, n) == IF n = 0 THEN 0 ELSE f[n] + SumTo(f, n - 1)

\* W, the total weight of the dispatched tasks, in tenths
TotalWeight == SumTo([w \in Workers |-> processes[w].weight], Dispatched)

\* the sum of score * weight over the results collected, in 1/10000
WeightedSum ==
    SumTo([i \in 1 .. Len(collected) |->
              collected[i].result.score * collected[i].result.weight], Len(collected))

\* the net_score of the returned scores map, in 1/10000
ReturnedNet == returned[1]["net_score"]

\* the two-task scenario: scoreA returning 0.6 with weight 1.0, and a
\* scorer that raises with weight 3.0
ScenarioOneRaises ==
    << TaskLine("scoreA", <<"x">>, <<"1", ".", "0">>), TaskLine("scoreC", <<"y">>, <<"3", ".", "0">>) >>

-----------------------------------------------------------------------------
(* C1.  For every run in which at least one task is dispatched and the     *)
(* dispatched weights sum to W > 0, the returned net_score equals the sum  *)
(* over the dispatched tasks of score * weight, divided by W.              *)
(* In the units of the model: net * W = 10 * sum.                          *)
C1_NetScoreIsWeightedAverage ==
    (Returned /\ Dispatched >= 1 /\ TotalWeight > 0)
        => ReturnedNet * TotalWeight = 10 * WeightedSum

(* C2.  A dispatched task whose scorer raises contributes 0.0 and its      *)
(* weight still counts in W: scoreA (weight 1.0, returning 0.6) with a     *)
(* raising scorer of weight 3.0 gives net_score 0.15, which is lower than  *)
(* the 0.6 of the run without the raising task.                            *)
C2_RaisingTaskPullsNetScoreDown ==
    (Returned /\ taskfile = ScenarioOneRaises)
        => (ReturnedNet = 1500 /\ ReturnedNet < 6000)

(* C3.  If every dispatched task's score lies in [0,1] and W > 0, the      *)
(* returned net_score lies in [0,1].                                       *)
C3_NetScoreInUnitInterval ==
    (/\ Returned
     /\ Dispatched >= 1
     /\ TotalWeight > 0
     /\ \A i \in 1 .. Len(collected) :
            collected[i].result.score >= 0 /\ collected[i].result.score <= 1000)
        => (ReturnedNet >= 0 /\ ReturnedNet <= 10000)

(* C4.  If a worker process dies without putting a result, the dispatcher *)
(* detects it and the run still returns instead of waiting forever: once   *)
(* a worker has died, the run has returned or some step is still possible. *)
C4_RunWithDeadWorkerStillReturns ==
    (\E w \in Workers : w_pc[w] = "dead") => (Returned \/ ENABLED Next)

\* every result put so far: those collected, then those still on the queue
AllResults == [i \in 1 .. Len(collected) |-> collected[i].result] \o results_queue

ResultsOf(w) == SelectSeq(AllResults, LAMBDA r : r.src = w)

\* the scorer call of worker w is over
CallEnded(w) == w_pc[w] \in {"done", "exited", "dead"}

CollectionEnded == d_pc \in {"join", "sentinel", "joinlog", "returned"}

StartedWorkers == {w \in Workers : w_pc[w] # "created"}

(* C6.  Exactly one result is produced per dispatched task and exactly one *)
(* is consumed per dispatched task: no worker puts more than one, and when *)
(* the collection loop ends the number of results taken equals the number  *)
(* of started workers, every started worker has contributed exactly one of *)
(* them, and none is left on the queue.                                    *)
C6_OneResultPerDispatchedTask ==
    /\ \A w \in Workers : put_count[w] <= 1
    /\ CollectionEnded =>
          /\ Len(collected) = Cardinality(StartedWorkers)
          /\ StartedWorkers = Workers
          /\ \A w \in Workers :
                /\ put_count[w] = 1
                /\ Cardinality({i \in 1 .. Len(collected) :
                                    collected[i].result.src = w}) = 1
          /\ results_queue = <<>>

C6_Witness == d_pc = "join" /\ Dispatched >= 2

(* C7.  A scorer failure in one worker never changes what a sibling emits: *)
(* each dispatched task whose scorer returns (s, t) is recorded in the     *)
(* scores map with score s, whichever of the other tasks raise.            *)
C7_ReturnedScoreIsRecorded ==
    CollectionEnded =>
        \A w \in Workers :
            Call(w).kind = "return" =>
                \E i \in 1 .. Len(collected) :
                    /\ collected[i].result.src = w
                    /\ Call(w).score.shape = "scalar"
                    /\ scores_dictionary[collected[i].key] = Call(w).score.val

(* C7, the scalar case: a task whose scorer returns a scalar s is recorded *)
(* with score s, whichever of the other tasks raise.                       *)
C7_ScalarScoreIsRecorded ==
    CollectionEnded =>
        \A w \in Workers :
            (Call(w).kind = "return" /\ Call(w).score.shape = "scalar") =>
                \E i \in 1 .. Len(collected) :
                    /\ collected[i].result.src = w
                    /\ scores_dictionary[collected[i].key] = Call(w).score.val

RECURSIVE SumMap(_)
SumMap(m) ==
    IF DOMAIN m = {} THEN 0
    ELSE LET k == CHOOSE x \in DOMAIN m : TRUE
         IN  m[k] + SumMap([x \in DOMAIN m \ {k} |-> m[x]])

(* C8.  A composite score is aggregated by the arithmetic mean of its      *)
(* values before being weighted: the result of a task whose scorer returns *)
(* a composite carries that mean (0.0 for an empty composite), so that it  *)
(* contributes mean * weight to the weighted sum.                          *)
C8_CompositeContributesItsMean ==
    \A i \in 1 .. Len(AllResults) :
        LET r == AllResults[i]
            c == Call(r.src).score
        IN  (Call(r.src).kind = "return" /\ c.shape = "composite") =>
                IF DOMAIN c.val = {}
                  THEN r.score * r.weight = 0
                  ELSE r.score * r.weight * Cardinality(DOMAIN c.val)
                          = SumMap(c.val) * r.weight

Occurrences(name) == Cardinality({w \in Workers : processes[w].func_name = name})

(* C9.  If a function name is dispatched N times in a run, the returned    *)
(* scores map and the returned latency map each hold N distinct entries    *)
(* for it, under the keys name_1 ... name_N, each result collected being   *)
(* held under a key of its own.                                            *)
C9_OneEntryPerOccurrence ==
    (Returned /\ Dispatched >= 1) =>
        /\ \A name \in {processes[w].func_name : w \in Workers} :
              LET keys == {name \o "_" \o ToString(k) : k \in 1 .. Occurrences(name)}
              IN  /\ Cardinality(keys) = Occurrences(name)
                  /\ keys \subseteq DOMAIN returned[1]
                  /\ keys \subseteq DOMAIN returned[2]
        /\ \A i, j \in 1 .. Len(collected) :
              i # j => collected[i].key # collected[j].key
        /\ \A i \in 1 .. Len(collected) :
              /\ returned[1][collected[i].key] = collected[i].result.score
              /\ returned[2][collected[i].key] = collected[i].result.time_taken

C9_Witness ==
    /\ Returned
    /\ \E name \in {processes[w].func_name : w \in Workers} : Occurrences(name) >= 2

\* the sentinel has been put on the log queue
SentinelSent == \E i \in 1 .. Len(submitted) : submitted[i] = None

\* the messages submitted, the sentinel apart
Messages == SelectSeq(submitted, LAMBDA m : m # None)

(* C10.  The dispatcher puts the sentinel on the log queue only after      *)
(* every started worker has ended and been joined; no message is submitted *)
(* after it, so that when the logger has ended the log file holds every    *)
(* message submitted, in order, between the start line and the end line;   *)
(* and the dispatcher returns only after the logger process has ended.     *)
C10_SentinelAfterWorkersAndNothingLost ==
    /\ (SentinelSent /\ Dispatched >= 1) =>
          /\ d_pc \in {"joinlog", "returned"}
          /\ \A w \in Workers : w_pc[w] = "exited"
    /\ \A i \in 1 .. Len(submitted) : submitted[i] = None => i = Len(submitted)
    /\ logger_pc = "exited" =>
          log_file = << Msg("Log started", 0, "", <<>>) >> \o Messages
                        \o << Msg("Log ended", 0, "", <<>>) >>
    /\ Returned => logger_pc = "exited"

C10_Witness ==
    /\ Returned
    /\ Dispatched >= 1
    /\ \E i \in 1 .. Len(log_file) : log_file[i][1] = "worker"
    /\ \E i \in 1 .. Len(log_file) : log_file[i][1] = "WARNING"

\* the lines of the log file that carry a message: those after the start
\* line, the end line apart
LoggedMessages ==
    SubSeq(log_file, 2, IF logger_pc = "exited" THEN Len(log_file) - 1 ELSE Len(log_file))

(* C11.  Every message put on the log queue, by the parser or by a worker, *)
(* reaches the log file through the logger process alone, as one line per  *)
(* message and in the order of the queue: at every moment the message      *)
(* lines of the file, followed by the messages still on the queue, are the *)
(* messages submitted, in the order of submission, each one whole.         *)
C11_LogFileIsQueueOrder ==
    /\ logger_pc \in {"unstarted", "started"} => log_file = <<>>
    /\ logger_pc \in {"loop", "exited"} =>
          /\ log_file[1] = Msg("Log started", 0, "", <<>>)
          /\ LoggedMessages \o SelectSeq(log_queue, LAMBDA m : m # None) = Messages

C11_Witness ==
    /\ logger_pc = "exited"
    /\ \E i, j \in 1 .. Len(LoggedMessages) :
          /\ i < j
          /\ LoggedMessages[i][1] = "worker" /\ LoggedMessages[j][1] = "worker"
          /\ LoggedMessages[i][2] > LoggedMessages[j][2]

\* the weight field of a matched line is no floating-point literal
MalformedWeight(text) ==
    LinesRead[text].kind = "match" /\ FloatOfStrRaises(LinesRead[text].weight_str)

\* a warning for line i has been put on the log queue
WarnedLines == {submitted[k][2] : k \in {n \in 1 .. Len(submitted) : submitted[n][1] = "WARNING"}}

(* C12.  A task line whose weight field is malformed (1.2.3 or a lone dot) *)
(* is a line-level parse failure: parsing never aborts the run, and every  *)
(* such line the parser has gone past was skipped with a logged warning,   *)
(* the parser going on to the lines after it.                              *)
C12_MalformedWeightIsSkipped ==
    /\ d_pc # "raised"
    /\ \A i \in 1 .. Len(taskfile) :
          MalformedWeight(taskfile[i]) =>
              \/ lineno <= i
              \/ i \in WarnedLines /\ lineno > i

\* the lines the parser has gone past
Parsed == SubSeq(taskfile, 1, lineno - 1)

\* a line that fails the grammar, names a function absent from the registry,
\* supplies a number of keys other than the function's number of parameters,
\* or references a key absent from the parameter store
Offending(text) ==
    LET line == LinesRead[text] IN
    \/ line.kind = "nomatch"
    \/ /\ line.kind = "match"
       /\ \/ line.func_name \notin DOMAIN available_functions
          \/ Len(line.keys) # NumParams(available_functions[line.func_name])
          \/ \E j \in 1 .. Len(line.keys) : line.keys[j] \notin DOMAIN all_args_dict

\* the processes the parser creates for a sequence of lines
RECURSIVE ParsedTasks(_)
ParsedTasks(lines) ==
    IF lines = <<>> THEN <<>>
    ELSE ParsedTasks(SubSeq(lines, 1, Len(lines) - 1))
            \o ParseOutcome(Len(lines), lines[Len(lines)]).task

\* the warnings put on the log queue for line i
WarningsFor(i) ==
    {k \in 1 .. Len(submitted) : submitted[k][1] = "WARNING" /\ submitted[k][2] = i}

ParsingEnded == d_pc \notin {"init", "parse"}

(* C14.  If no line of the task file yields a dispatched task, or every    *)
(* dispatched task has weight 0, the run raises no exception and the       *)
(* net_score it returns is exactly 0.0.                                    *)
C14_ZeroWeightRunReturnsZero ==
    (ParsingEnded /\ (Dispatched = 0 \/ TotalWeight = 0)) =>
        /\ d_pc # "raised"
        /\ Returned => ReturnedNet = 0

(* C14, the task files whose weights are all floating-point literals: the  *)
(* run raises no exception and returns net_score 0 when nothing is         *)
(* dispatched or every dispatched weight is 0.                             *)
C14_WellFormedWeightsReturnZero ==
    (/\ ParsingEnded
     /\ \A i \in 1 .. Len(taskfile) : ~MalformedWeight(taskfile[i])
     /\ (Dispatched = 0 \/ TotalWeight = 0)) =>
        /\ d_pc # "raised"
        /\ Returned => ReturnedNet = 0

(* C15.  For the task file with the single line scoreA(x) 1.0, scoreA     *)
(* returning (0.8, 0.01) and x in the parameter store, the returned scores *)
(* map is exactly {"scoreA": 0.8, "net_score": 0.8}: the score is stored   *)
(* under the function's name.                                              *)
C15_ScoreStoredUnderFunctionName ==
    (Returned /\ taskfile = << TaskLine("scoreA", <<"x">>, <<"1", ".", "0">>) >>) =>
        returned[1] = ("scoreA" :> 800) @@ ("net_score" :> 8000)

(* C16.  The latency map a run returns holds the key net_score_latency,   *)
(* whose value is the wall-clock span of the dispatch window, from the     *)
(* start of the first worker to the collection of the last result, and not *)
(* a sum of the durations of the tasks.                                    *)
C16_LatencyMapHasDispatchWindow ==
    Returned =>
        /\ "net_score_latency" \in DOMAIN returned[2]
        /\ returned[2]["net_score_latency"] = "dispatch_window"

(* C17.  If the logger process cannot open its log file, the run is       *)
(* aborted and the error surfaced to the caller: no run whose logger       *)
(* failed to open the file goes on to return a normal report.              *)
C17_RunWithoutLoggerDoesNotReturn ==
    ~(logger_pc = "failed" /\ Returned)

\* worker w is inside a scorer call that never returns
Unresponsive(w) == w_pc[w] = "running" /\ Call(w).kind = "hang"

(* C18.  A worker whose scorer never returns is treated as failed after a  *)
(* bounded collection timeout, its task recorded with the sentinel 0.0,    *)
(* and the run returns: while a worker is unresponsive the run has         *)
(* returned or some step, such as the timeout, is still possible.          *)
C18_UnresponsiveWorkerIsTimedOut ==
    (\E w \in Workers : Unresponsive(w)) => (Returned \/ ENABLED Next)

\* a line that passes the syntax, registry and arity checks and names a key
\* absent from the parameter store
LacksKeys(text) ==
    LET line == LinesRead[text] IN
    /\ line.kind = "match"
    /\ line.func_name \in DOMAIN available_functions
    /\ Len(line.keys) = NumParams(available_functions[line.func_name])
    /\ \E j \in 1 .. Len(line.keys) : line.keys[j] \notin DOMAIN all_args_dict

(* C19.  A line that passes the syntax, registry and arity checks but      *)
(* names keys absent from the parameter store is dropped, and the one      *)
(* warning logged for it lists exactly the keys of the line that are       *)
(* absent from the store, in the order the line declares them, and no key  *)
(* that is present.                                                        *)
C19_WarningListsTheMissingKeys ==
    /\ processes = ParsedTasks(SelectSeq(Parsed, LAMBDA line : ~LacksKeys(line)))
    /\ \A i \in 1 .. lineno - 1 :
          LacksKeys(taskfile[i]) =>
              /\ Cardinality(WarningsFor(i)) = 1
              /\ \A k \in WarningsFor(i) :
                    LET listed == submitted[k][4]
                    IN  /\ submitted[k][3] = "Missing required keys"
                        /\ \A j \in 1 .. Len(listed) : listed[j] \notin DOMAIN all_args_dict
                        /\ listed = SelectSeq(LinesRead[taskfile[i]].keys,
                                              LAMBDA key : key \notin DOMAIN all_args_dict)

C19_Witness ==
    /\ Returned
    /\ Dispatched = 1
    /\ \E i \in 1 .. Len(log_file) :
          /\ log_file[i][1] = "WARNING"
          /\ log_file[i][4] = <<"z2", "z1">>
          /\ Len(LinesRead[taskfile[log_file[i][2]]].keys) = 3

\* the parsed lines that yield a process, in order: process w comes from
\* the w-th of them
DispatchedLines ==
    SelectSeq(Parsed, LAMBDA line : /\ LinesRead[line].kind = "match"
                                    /\ ~Offending(line)
                                    /\ ~MalformedWeight(line))

(* C20.  For every dispatched task the scorer is the function registered   *)
(* under the line's name and is called with args[i] =                      *)
(* ParameterStore[parameter_keys[i]], in the order the keys are written in *)
(* the task line; the scorer's own parameter names play no part.           *)
C20_ArgumentsBoundInWrittenOrder ==
    \A lines \in {DispatchedLines} :
        /\ Len(processes) = Len(lines)
        /\ \A w \in Workers :
              \A line \in {LinesRead[lines[w]]} :
                  \A args \in {[j \in 1 .. Len(line.keys) |-> all_args_dict[line.keys[j]]]} :
                      /\ processes[w].target_func = available_functions[line.func_name]
                      /\ processes[w].args = args
                      /\ Call(w) = target_func(available_functions[line.func_name], args)

\* calculate_size_score(model_size_bytes, verbosity, log_queue) dispatched by
\* the line calculate_size_score(model_size_bytes, quiet, log_queue): its
\* parameter verbosity receives the store's value of quiet, 0, though the
\* store holds verbosity = 1, and the scorer has ended without logging
C20_Witness ==
    \E w \in Workers :
        /\ processes[w].func_name = "calculate_size_score"
        /\ LinesRead[DispatchedLines[w]].keys[2] = "quiet"
        /\ all_args_dict["verbosity"] = 1
        /\ processes[w].args[2] = 0
        /\ CallEnded(w)
        /\ w_logged[w] = 0

\* the result of worker w among those collected
ResultOfWorker(w) ==
    collected[CHOOSE i \in 1 .. Len(collected) : collected[i].result.src = w].result

\* the net_score the collection loop computes when the results of the first
\* n workers arrive in the order of the task file
RECURSIVE NetInFileOrder(_)
NetInFileOrder(n) ==
    IF n = 0 THEN 0
    ELSE FloatAdd(NetInFileOrder(n - 1),
                  FloatMul(ResultOfWorker(n).score, ResultOfWorker(n).weight))

(* C21.  The net_score returned does not depend on the order in which the  *)
(* results arrive on the result queue: whatever the order of arrival, it   *)
(* is the net_score of the run in which the same results arrive in the     *)
(* order of the task file.                                                 *)
C21_NetScoreIndependentOfArrival ==
    (Returned /\ Dispatched >= 1) => ReturnedNet = NetInFileOrder(Dispatched)

\* a line exactly of the form name(key1, key2, ...) weight: the pattern
\* matches it, nothing follows the weight and the weight is a decimal literal
ExactForm(text) ==
    /\ LinesRead[text].kind = "match"
    /\ LinesRead[text].rest = <<>>
    /\ ~FloatOfStrRaises(LinesRead[text].weight_str)

(* C22.  Blank lines are ignored, and every non-blank line that is not     *)
(* exactly of the form name(key1, key2, ...) weight with a non-negative    *)
(* decimal weight, a line carrying extra text after the weight included,   *)
(* is skipped with a logged warning and dispatches nothing: the processes  *)
(* are those of the lines of that exact form, a blank line has no warning  *)
(* and every other line not of the form has exactly one.                   *)
C22_OnlyExactLinesDispatch ==
    /\ processes = ParsedTasks(SelectSeq(Parsed, ExactForm))
    /\ \A i \in 1 .. Len(Parsed) :
          IF Strip(Parsed[i]) = <<>>
            THEN WarningsFor(i) = {}
            ELSE ~ExactForm(Parsed[i]) => Cardinality(WarningsFor(i)) = 1


(* C23.  The only write run_concurrently_from_file makes to the caller's   *)
(* dictionary is the binding of log_queue to the run's log queue, made     *)
(* before parsing begins and replacing the value the caller had put there: *)
(* the first step of the run binds it, no other step changes any entry,    *)
(* and so no entry is written once a worker has been started.              *)
C23_StoreWrittenOnlyByBinding ==
    [][IF d_pc = "init"
         THEN /\ DOMAIN all_args_dict' = DOMAIN all_args_dict \cup {"log_queue"}
              /\ all_args_dict'["log_queue"] = "log_queue"
              /\ \A k \in DOMAIN all_args_dict \ {"log_queue"} :
                    all_args_dict'[k] = all_args_dict[k]
         ELSE all_args_dict' = all_args_dict]_vars

C23_Witness ==
    /\ Returned
    /\ Dispatched >= 1
    /\ \A w \in Workers : w_pc[w] = "exited"
    /\ CallerArgs["log_queue"] = "log_file_path"
    /\ all_args_dict = [CallerArgs EXCEPT !["log_queue"] = "log_queue"]

\* the process of worker w has ended
Terminated(w) == w_pc[w] \in {"exited", "dead"}

TaskState(pc) ==
    CASE pc = "created" -> "Queued"
      [] pc = "running" -> "Running"
      [] pc \in {"done", "exited", "dead"} -> "Ended"

(* C25.  Each dispatched task moves only Queued -> Running -> Completed or *)
(* Failed and never backwards: in every step a task keeps its state, or    *)
(* goes from Queued to Running, or from Running to its final state; no     *)
(* task is removed or replaced; so the scorer is invoked at most once and  *)
(* a task that failed is never started again.                              *)
C25_TaskMovesForwardOnly ==
    [][/\ Len(processes') >= Len(processes)
       /\ \A w \in Workers :
            /\ processes'[w] = processes[w]
            /\ \/ TaskState(w_pc'[w]) = TaskState(w_pc[w])
               \/ TaskState(w_pc[w]) = "Queued" /\ TaskState(w_pc'[w]) = "Running"
               \/ TaskState(w_pc[w]) = "Running" /\ TaskState(w_pc'[w]) = "Ended"
            /\ put_count'[w] >= put_count[w]
            /\ put_count'[w] <= 1]_vars

C25_Witness ==
    /\ Returned
    /\ \E w \in Workers : /\ Call(w).kind = "raise"
                          /\ w_pc[w] = "exited"
                          /\ put_count[w] = 1
    /\ \E w \in Workers : /\ Call(w).kind = "return"
                          /\ ~FloatRaises(Call(w).score)
                          /\ w_pc[w] = "exited"

\* the lines of the project file that are not empty
NonEmptyProjectLines == SelectSeq(project_lines, LAMBDA text : Strip(text) # <<>>)

\* a line of at most three fields whose dataset link, if it has one, is a
\* dataset URL
AcceptableProjectLine(text) ==
    /\ Len(LineParts(Strip(text))) = 3
    /\ \/ LineParts(Strip(text))[2] = <<>>
       \/ parse_dataset_url(LineParts(Strip(text))[2]).raises = ""

(* C26.  parse_project_file returns one ProjectGroup per non-empty line    *)
(* and allows empty fields: it raises only on a line that has more than    *)
(* three fields or a dataset link that is no dataset URL, never on a line  *)
(* such as ',,http://model.com' or a line with no model link, and what it  *)
(* returns has one group for each non-empty line, carrying its links.      *)
C26_EmptyFieldsAreAllowed ==
    /\ pp_pc = "raised" => ~AcceptableProjectLine(project_lines[pp_read])
    /\ pp_pc = "returned" =>
          /\ Len(project_groups) = Len(NonEmptyProjectLines)
          /\ \A k \in 1 .. Len(project_groups) :
                LET parts == LineParts(Strip(NonEmptyProjectLines[k]))
                IN  /\ project_groups[k].code.link = Spell(parts[1])
                    /\ project_groups[k].dataset.link = Spell(parts[2])
                    /\ project_groups[k].model.link = Spell(parts[3])

(* C27.  The elapsed value carried by a task's result and stored in the    *)
(* latency map is the wall-clock time the worker itself measured around    *)
(* the scorer's invocation, for a task that returns as for a task that     *)
(* raises, and not the second value the scorer returned.                   *)
C27_ElapsedIsMeasuredByTheWorker ==
    /\ \A i \in 1 .. Len(results_queue) : results_queue[i].time_taken = "worker_elapsed"
    /\ Returned =>
          \A i \in 1 .. Len(collected) :
              returned[2][collected[i].key] = "worker_elapsed"

\* control has left run_concurrently_from_file, by a return or an exception
LeftTheCall == d_pc \in {"returned", "raised"}

(* C28.  On every path by which control leaves run_concurrently_from_file  *)
(* after the logger process was started, the normal return, the return for *)
(* no valid task, or an exception raised while the task file is opened or  *)
(* parsed, the sentinel has been put on the log queue and the logger       *)
(* process has been joined, hence has ended.                               *)
C28_LoggerShutDownOnEveryExit ==
    (LeftTheCall /\ logger_pc # "unstarted") => (SentinelSent /\ LoggerEnded)

\* the rank of the i-th collected result among the collected results of
\* its function name
ArrivalRank(i) ==
    Cardinality({j \in 1 .. i :
                    collected[j].result.func_name = collected[i].result.func_name})

(* C29.  The numeric suffix of a key is assigned in the order in which the *)
(* results arrive on the result queue, not in the order of the task file:  *)
(* the key name_k holds the k-th result of that name to be collected, in   *)
(* the scores map as in the latency map.                                   *)
C29_SuffixFollowsArrivalOrder ==
    \A i \in 1 .. Len(collected) :
        LET r == collected[i].result
            key == r.func_name \o "_" \o ToString(ArrivalRank(i))
        IN  /\ collected[i].key = key
            /\ scores_dictionary[key] = r.score
            /\ times_dictionary[key] = r.time_taken
            /\ Returned => /\ returned[1][key] = r.score
                           /\ returned[2][key] = r.time_taken

\* a returned run of two tasks of one name in which name_1 is bound to the
\* result of the second task of the file
C29_Witness ==
    /\ Returned
    /\ Dispatched = 2
    /\ processes[1].func_name = processes[2].func_name
    /\ collected[1].key = processes[1].func_name \o "_1"
    /\ collected[1].result.src = 2
    /\ collected[2].key = processes[1].func_name \o "_2"
    /\ collected[2].result.src = 1

-----------------------------------------------------------------------------
(* build_model_output of src/json_output.py, as run.py calls it with the   *)
(* maps run_concurrently_from_file returned.                               *)

\* d.get(k, default)
Get(d, k, default) == IF k \in DOMAIN d THEN d[k] ELSE default

\* category.upper(), on the category run.py passes
Upper(s) == CASE s = "model" -> "MODEL" [] s = "MODEL" -> "MODEL"

\* the default 0 of the latency fields; durations are tags in this model
\* ("scorer_elapsed", "worker_elapsed"), and so is the duration 0
ZeroLatency == "0"

\* lines 5-36: the dictionary written to stdout
build_model_output(name, category, scores, latency) ==
    [name |-> name,
     category |-> Upper(category),
     net_score |-> Get(scores, "net_score", 0),
     net_score_latency |-> Get(latency, "net_score_latency", ZeroLatency),
     ramp_up_time |-> Get(scores, "rampup_time_metric", 0),
     ramp_up_time_latency |-> Get(latency, "rampup_time_metric", ZeroLatency),
     bus_factor |-> Get(scores, "bus_factor_metric", 0),
     bus_factor_latency |-> Get(latency, "bus_factor_metric", ZeroLatency),
     performance_claims |-> Get(scores, "performance_claims_metric", 0),
     performance_claims_latency |-> Get(latency, "performance_claims_metric", ZeroLatency),
     license |-> Get(scores, "calculate_license_score", 0),
     license_latency |-> Get(latency, "calculate_license_score", ZeroLatency),
     size_score |-> Get(scores, "calculate_size_score", 0),
     size_score_latency |-> Get(latency, "calculate_size_score", ZeroLatency),
     dataset_and_code_score |-> Get(scores, "dataset_and_code_present", 0),
     dataset_and_code_score_latency |-> Get(latency, "dataset_and_code_present", ZeroLatency),
     dataset_quality |-> Get(scores, "dataset_quality", 0),
     dataset_quality_latency |-> Get(latency, "dataset_quality", ZeroLatency),
     code_quality |-> Get(scores, "code_quality", 0),
     code_quality_latency |-> Get(latency, "code_quality", ZeroLatency)]

\* the output field of each metric build_model_output reports
OutputField ==
    ("rampup_time_metric" :> "ramp_up_time")
    @@ ("bus_factor_metric" :> "bus_factor")
    @@ ("performance_claims_metric" :> "performance_claims")
    @@ ("calculate_license_score" :> "license")
    @@ ("calculate_size_score" :> "size_score")
    @@ ("dataset_and_code_present" :> "dataset_and_code_score")
    @@ ("dataset_quality" :> "dataset_quality")
    @@ ("code_quality" :> "code_quality")

\* run.py line 141, for the model repository "repo"
ModelOutput == build_model_output("repo", "model", returned[1], returned[2])

(* C30.  For each metric dispatched, build_model_output applied to the     *)
(* returned scores and latency maps reports the metric's recorded score    *)
(* and latency in its output field (calculate_license_score in license and *)
(* license_latency) and not the default 0: in a run that dispatched each   *)
(* metric once, the field of every collected metric holds the score and    *)
(* the latency collected for it.                                           *)
C30_OutputReportsRecordedMetrics ==
    (Returned /\ Dispatched >= 1) =>
        \A i \in 1 .. Len(collected) :
            LET r == collected[i].result
            IN  (r.func_name \in DOMAIN OutputField /\ Occurrences(r.func_name) = 1) =>
                    /\ ModelOutput[OutputField[r.func_name]] = r.score
                    /\ ModelOutput[OutputField[r.func_name] \o "_latency"] = r.time_taken

-----------------------------------------------------------------------------
\* the positions of the messages of one kind in the history of the log queue
PutsOf(tag) == {i \in 1 .. Len(submitted) : submitted[i][1] = tag}

\* the workers whose process has been started (p.start() of line 132)
Invoked == {w \in Workers : w_pc[w] # "created"}

\* C31: no worker process is started before the whole task file is parsed:
\* while the dispatcher is still in the loop of lines 88-123 no process has
\* left the state it was created in, every parse warning was put on the log
\* queue before every message of a worker, and once an exception raised by
\* a line has left the function no scorer has been or will be invoked.
C31_NoWorkerBeforeParsingEnds ==
    /\ d_pc \in {"init", "parse", "raised", "notasks", "early_join"} => Invoked = {}
    /\ \A i \in PutsOf("WARNING") : \A j \in PutsOf("worker") : i < j
    /\ d_pc = "raised" => put_count = [w \in Workers |-> 0] /\ results_queue = <<>>

\* a task of the file has logged from its worker, after a warning for
\* another line of the same file
C31_Witness ==
    /\ PutsOf("WARNING") # {}
    /\ PutsOf("worker") # {}
    /\ Invoked # {}

\* C32: after a run that dispatched N >= 1 tasks the latency map has
\* exactly N keys, the scores map has those N keys and net_score and no
\* other, and no key generated for a result is net_score or the key
\* generated for another result.
C32_MapsHoldOneKeyPerTask ==
    (Returned /\ Dispatched >= 1) =>
        /\ Cardinality(DOMAIN returned[2]) = Dispatched
        /\ "net_score" \notin DOMAIN returned[2]
        /\ DOMAIN returned[1] = DOMAIN returned[2] \cup {"net_score"}
        /\ Len(collected) = Dispatched
        /\ \A i \in 1 .. Len(collected) :
              /\ collected[i].key # "net_score"
              /\ collected[i].key \in DOMAIN returned[2]
              /\ \A j \in 1 .. Len(collected) :
                    i # j => collected[i].key # collected[j].key

\* a run has returned that dispatched the function named net_score next to
\* the function named scoreA_1
C32_Witness ==
    /\ Returned
    /\ Dispatched = 2
    /\ \E w \in Workers : processes[w].func_name = "net_score"
    /\ \E w \in Workers : processes[w].func_name = "scoreA_1"

\* what has been taken from the log queue so far
Taken == SubSeq(submitted, 1, Len(submitted) - Len(log_queue))

\* the messages of s that precede its first None (all of s if it has none)
RECURSIVE BeforeFirstNone(_)
BeforeFirstNone(s) ==
    IF s = <<>> \/ Head(s) = None THEN <<>>
    ELSE << Head(s) >> \o BeforeFirstNone(Tail(s))

\* C33: the logger stops at the first None it takes from the log queue: the
\* first line of the log file is the start line; once a None has been taken
\* the logger has ended, the None is the last thing it took, and the file is
\* the start line, the messages put before the first None and the end line,
\* whatever is put on the queue afterwards.
C33_LoggerStopsAtFirstNone ==
    /\ log_file # <<>> => log_file[1] = Msg("Log started", 0, "", <<>>)
    /\ logger_pc = "exited" <=> \E i \in 1 .. Len(Taken) : Taken[i] = None
    /\ logger_pc = "exited" =>
          /\ Taken = BeforeFirstNone(submitted) \o << None >>
          /\ log_file = << Msg("Log started", 0, "", <<>>) >> \o BeforeFirstNone(submitted)
                           \o << Msg("Log ended", 0, "", <<>>) >>

\* the logger has written a message and ended, and a message and a second
\* None put after the first None are on the queue
C33_Witness ==
    /\ logger_pc = "exited"
    /\ Len(log_file) >= 3
    /\ \E i \in 1 .. Len(log_queue) : log_queue[i] = None
    /\ \E i \in 1 .. Len(log_queue) : log_queue[i] # None

\* C34: every ProjectGroup parse_project_file returns is built from the
\* fields of its own line only: the group of a line with a model link
\* carries what parse_huggingface_url makes of that link and the group of a
\* line with a dataset link what parse_dataset_url makes of it, and the
\* group of a line whose model or dataset field is empty carries no
\* namespace, repo, rev or dataset repo of an earlier line (its namespace
\* and repos are empty, its rev is empty or the default "main").
C34_GroupBuiltFromItsOwnLine ==
    pp_pc = "returned" =>
        \A k \in 1 .. Len(project_groups) :
            LET parts == LineParts(Strip(NonEmptyProjectLines[k]))
                group == project_groups[k]
            IN  /\ IF parts[3] = <<>>
                     THEN /\ group.model.namespace = ""
                          /\ group.model.repo = ""
                          /\ group.model.rev \in {"", "main"}
                     ELSE /\ group.model.namespace = parse_huggingface_url(parts[3]).namespace
                          /\ group.model.repo = parse_huggingface_url(parts[3]).repo
                          /\ group.model.rev = parse_huggingface_url(parts[3]).rev
                /\ IF parts[2] = <<>>
                     THEN group.dataset.repo = ""
                     ELSE group.dataset.repo = parse_dataset_url(parts[2]).repo

\* C35: each run opens the log file in truncating mode: once the logger of
\* a run after the first has opened the file, the file holds the start line
\* and messages of that run only, and when the run has returned the file is
\* the start line, the messages and the end line of that last run, with
\* nothing of the runs before.
C35_LogFileHoldsLastRunOnly ==
    /\ (run_no >= 2 /\ logger_pc \in {"loop", "exited"}) =>
          /\ log_file[1] = Msg("Log started", 0, "", <<>>)
          /\ LoggedMessages \o SelectSeq(log_queue, LAMBDA m : m # None) = Messages
    /\ (run_no >= 2 /\ Returned) =>
          log_file = << Msg("Log started", 0, "", <<>>) >> \o Messages
                        \o << Msg("Log ended", 0, "", <<>>) >>

\* the second run has returned; it logged a warning and a worker's message,
\* as the first run did into the same file
C35_Witness ==
    /\ run_no = 2
    /\ Returned
    /\ \E i \in 1 .. Len(log_file) : log_file[i][1] = "worker"
    /\ \E i \in 1 .. Len(log_file) : log_file[i][1] = "WARNING"
====
